---- MODULE Spec2Model ----
(***************************************************************************)
(* GlyphMind: the text analyzer (GlyphAnalyzer) and the canvas animation   *)
(* engine (GlyphRenderer, Particle, ResonanceField) of                     *)
(* src/src/lib/glyph-renderer.ts, as state machines.                       *)
(*                                                                         *)
(* Numbers that the code can make fractional (cognitiveLoad, frequency,    *)
(* emergence points, lightness) are exact rationals <<n, d>> in lowest     *)
(* terms.  A text is a sequence of one-character strings.                  *)
(***************************************************************************)
EXTENDS Integers, Sequences, FiniteSets, TLC

VARIABLES
    provider,   \* GlyphAnalyzer.provider: index into AI_PROVIDERS
    text,       \* the argument of analyzeText: [type, chars]
    apc,        \* position of the analyzer's caller: "idle" | "returned"
    ncalls,     \* analyzeText calls made on `text` so far
    result,     \* value the latest analyzeText call resolved to
    first,      \* the first analyzeText call on `text`: [by, value]
    \* GlyphRenderer
    canvas,         \* this.canvas: [width, height]
    animationId,    \* this.animationId: a frame handle, NullId for null
    startTime,      \* this.startTime, in ms
    particles,      \* this.particles: sequence of Particle
    resonanceField, \* this.resonanceField: [width, height, field]
    \* the host the renderer runs in
    pending,        \* frame callbacks requested and neither run nor cancelled
    nextHandle,     \* handle the next requestAnimationFrame returns
    now,            \* performance.now(), in ms
    rng,            \* state of the generator behind Math.random
    \* what the caller and the surface have seen
    calls,          \* render and stopAnimation calls made
    lastOp,         \* the latest step: "new" | "render" | "stop" | "tick"
    threw,          \* whether the latest step ended by an exception
    drew,           \* layers the latest step drew, in order
    stopped,        \* stopAnimation cancelled a frame and no animated render came since
    respawns,       \* indices of the particles the latest step respawned
    run,            \* analysis, options and time of the latest animated render
    getContextCalls, \* canvas.getContext('2d') calls the constructor made
    \* generateGlyphData called on its own
    metrics,        \* its arguments cognitive and emotional
    glyphData,      \* what the latest call returned
    firstShape,     \* the shape the first call returned
    glyphCalls,     \* calls made
    \* SessionManager and the localStorage behind it
    currentSession, \* this.currentSession
    storage,        \* the item 'glyphmind_session' of localStorage
    clock,          \* the latest value Date.now() returned
    nextId,         \* number of ids generateId has made
    sessionCalls,   \* calls made on the SessionManager
    sessionOp,      \* the latest call
    returned,       \* what the latest call returned
    sessionThrew,   \* whether the latest call ended by an exception
    setItems,       \* outcomes of the setItem calls the latest call made
    \* VoiceRecorder and the browser behind it
    mediaRecorder,  \* this.mediaRecorder: NoRecorder (null) or the recorder's number
    stream,         \* this.stream: NoRecorder (null) or the stream's number
    audioContext,   \* whether this.audioContext is set
    analyser,       \* whether this.analyser is set
    isRecording,    \* this.isRecording
    recordingStart, \* this.startTime, in seconds
    volumeData,     \* this.volumeData
    starting,       \* the startRecording call that awaits getUserMedia
    timers,         \* auto-stop timeouts that have not fired
    onstops,        \* recorders whose stop event, with its onstop handler, is queued
    samplers,       \* requestAnimationFrame callbacks of `analyze` that are pending
    voiceNow,       \* Date.now(), in seconds
    frames,         \* animation frames the browser ran
    recordings,     \* history: the recordings startRecording started
    stopResult,     \* history: the latest settlement of a stopRecording promise
    voiceOp         \* history: the latest step

avars == <<provider, text, apc, ncalls, result, first>>
rvars == <<canvas, animationId, startTime, particles, resonanceField,
           pending, nextHandle, now, rng, calls, lastOp, threw, drew, stopped, respawns, run,
           getContextCalls>>
gvars == <<metrics, glyphData, firstShape, glyphCalls>>
svars == <<currentSession, storage, clock, nextId, sessionCalls, sessionOp, returned,
           sessionThrew, setItems>>
vvars == <<mediaRecorder, stream, audioContext, analyser, isRecording, recordingStart,
           volumeData, starting, timers, onstops, samplers, voiceNow, frames, recordings,
           stopResult, voiceOp>>
vars == <<provider, text, apc, ncalls, result, first,
          canvas, animationId, startTime, particles, resonanceField,
          pending, nextHandle, now, rng, calls, lastOp, threw, drew, stopped, respawns, run,
          getContextCalls, metrics, glyphData, firstShape, glyphCalls,
          currentSession, storage, clock, nextId, sessionCalls, sessionOp, returned,
          sessionThrew, setItems,
          mediaRecorder, stream, audioContext, analyser, isRecording, recordingStart,
          volumeData, starting, timers, onstops, samplers, voiceNow, frames, recordings,
          stopResult, voiceOp>>

\* ---------------------------------------------------------------- bounds
\* Longest input text, in fragments of Fragments.
MaxFragments == 3
\* analyzeText calls made on one text.
MaxAnalyzeCalls == 2
\* render and stopAnimation calls made on one renderer (Spec).
MaxCalls == 2
\* Frames the host runs (Spec).
MaxTicks == 2
\* Frames the host runs in one long animation run (SpecRun).
MaxRunTicks == 64
\* Metrics handed to generateGlyphData are the multiples of
\* 1 / MetricDenominator in [0,100].
MetricDenominator == 2
\* generateGlyphData calls made on one pair of metrics.
MaxGlyphCalls == 2
\* render and stopAnimation calls made on one renderer (SpecStop).
MaxStopCalls == 3
\* Calls made on one SessionManager.
MaxSessionCalls == 2
\* Milliseconds between two frames of the host.
FrameMs == 250
\* startRecording calls made on one VoiceRecorder.
MaxRecordings == 2
\* Seconds the clock of the VoiceRecorder's browser advances.
MaxVoiceTime == 3
\* Animation frames the VoiceRecorder's browser runs.
MaxFrames == 2
\* Modulus of the generator behind Math.random: it yields k / RngMod.
RngMod == 8

\* ------------------------------------------------------------- rationals
RECURSIVE Gcd(_, _)
Gcd(a, b) == IF b = 0 THEN a ELSE Gcd(b, a % b)

Abs(n) == IF n < 0 THEN -n ELSE n

\* n/d in lowest terms, d > 0.
Rat(n, d) ==
    LET g == Gcd(Abs(n), d)
    IN  <<n \div g, d \div g>>

RInt(i) == <<i, 1>>
RAdd(a, b) == Rat(a[1] * b[2] + b[1] * a[2], a[2] * b[2])
RSub(a, b) == Rat(a[1] * b[2] - b[1] * a[2], a[2] * b[2])
RMulInt(a, k) == Rat(a[1] * k, a[2])
RDivInt(a, k) == Rat(a[1], a[2] * k)
RLe(a, b) == a[1] * b[2] <= b[1] * a[2]
RLt(a, b) == a[1] * b[2] < b[1] * a[2]
RMin(a, b) == IF RLe(a, b) THEN a ELSE b
RMax(a, b) == IF RLe(a, b) THEN b ELSE a
RFloor(a) == a[1] \div a[2]

\* ------------------------------------------------------------ characters
LowerLetters ==
    {"a","b","c","d","e","f","g","h","i","j","k","l","m",
     "n","o","p","q","r","s","t","u","v","w","x","y","z"}
UpperLetters ==
    {"A","B","C","D","E","F","G","H","I","J","K","L","M",
     "N","O","P","Q","R","S","T","U","V","W","X","Y","Z"}
Digits == {"0","1","2","3","4","5","6","7","8","9"}

\* \w of the regular expressions.
WordChars == LowerLetters \cup UpperLetters \cup Digits \cup {"_"}
\* \s of the regular expressions (the characters of it the inputs use).
SpaceChars == {" ", "\t", "\n"}

UpperToLower ==
    [c \in UpperLetters |->
        CASE c = "A" -> "a" [] c = "B" -> "b" [] c = "C" -> "c" [] c = "D" -> "d"
          [] c = "E" -> "e" [] c = "F" -> "f" [] c = "G" -> "g" [] c = "H" -> "h"
          [] c = "I" -> "i" [] c = "J" -> "j" [] c = "K" -> "k" [] c = "L" -> "l"
          [] c = "M" -> "m" [] c = "N" -> "n" [] c = "O" -> "o" [] c = "P" -> "p"
          [] c = "Q" -> "q" [] c = "R" -> "r" [] c = "S" -> "s" [] c = "T" -> "t"
          [] c = "U" -> "u" [] c = "V" -> "v" [] c = "W" -> "w" [] c = "X" -> "x"
          [] c = "Y" -> "y" [] c = "Z" -> "z"]

\* String.prototype.toLowerCase, and the case folding of the /i flag.
toLowerCase(s) ==
    [i \in 1..Len(s) |-> IF s[i] \in UpperLetters THEN UpperToLower[s[i]] ELSE s[i]]

\* Least index j >= i with s[j] in cls, Len(s) + 1 when there is none.
NextIn(s, i, cls) ==
    LET c == {j \in i..Len(s) : s[j] \in cls}
    IN  IF c = {} THEN Len(s) + 1 ELSE CHOOSE j \in c : \A k \in c : j <= k

\* Least index j >= i with s[j] not in cls, Len(s) + 1 when there is none.
NextNotIn(s, i, cls) ==
    LET c == {j \in i..Len(s) : s[j] \notin cls}
    IN  IF c = {} THEN Len(s) + 1 ELSE CHOOSE j \in c : \A k \in c : j <= k

\* String.prototype.split with a pattern /[seps]+/: a run of separators
\* separates two pieces; a leading or trailing run leaves an empty piece.
RECURSIVE SplitRunsFrom(_, _, _)
SplitRunsFrom(s, i, seps) ==
    LET j == NextIn(s, i, seps)
    IN  IF j > Len(s) THEN <<SubSeq(s, i, Len(s))>>
        ELSE <<SubSeq(s, i, j - 1)>> \o SplitRunsFrom(s, NextNotIn(s, j, seps), seps)

SplitRuns(s, seps) == SplitRunsFrom(s, 1, seps)

\* String.prototype.split with a pattern /[seps]/: every separator
\* character separates two pieces.
RECURSIVE SplitEachFrom(_, _, _)
SplitEachFrom(s, i, seps) ==
    LET j == NextIn(s, i, seps)
    IN  IF j > Len(s) THEN <<SubSeq(s, i, Len(s))>>
        ELSE <<SubSeq(s, i, j - 1)>> \o SplitEachFrom(s, j + 1, seps)

SplitEach(s, seps) == SplitEachFrom(s, 1, seps)

\* Array.prototype.filter.
RECURSIVE SelectSeqIdx(_, _, _)
SelectSeqIdx(s, keep, i) ==
    IF i > Len(s) THEN <<>>
    ELSE (IF i \in keep THEN <<s[i]>> ELSE <<>>) \o SelectSeqIdx(s, keep, i + 1)

RECURSIVE SumSeq(_)
SumSeq(s) == IF s = <<>> THEN 0 ELSE Head(s) + SumSeq(Tail(s))

\* Number of matches of text.match(/\bword\b/gi): the places where `word`
\* stands between two word boundaries, letter case ignored.
CountWord(s, word) ==
    LET ls == toLowerCase(s)
        n  == Len(s)
        m  == Len(word)
    IN  Cardinality({i \in 1..(n - m + 1) :
            /\ ls[i] = word[1]
            /\ \A k \in 2..m : ls[i + k - 1] = word[k]
            /\ (i = 1 \/ ls[i - 1] \notin WordChars)
            /\ (i + m - 1 = n \/ ls[i + m] \notin WordChars)})

\* Sum over a lexicon of weight * (matches of each word).
LexiconScore(s, lexicon, weight) ==
    SumSeq([k \in 1..Len(lexicon) |-> CountWord(s, lexicon[k]) * weight])

\* String.prototype.includes on the lower-cased text.
Includes(ls, kw) ==
    \E i \in 1..(Len(ls) - Len(kw) + 1) :
        /\ ls[i] = kw[1]
        /\ \A k \in 2..Len(kw) : ls[i + k - 1] = kw[k]

\* String.prototype.trim().length > 0
NonBlank(s) == \E i \in 1..Len(s) : s[i] \notin SpaceChars

\* ---------------------------------------------------------------- lexicons
emotionalWords ==
    << <<"l","o","v","e">>, <<"h","a","t","e">>, <<"f","e","a","r">>,
       <<"j","o","y">>, <<"a","n","g","e","r">>, <<"s","a","d","n","e","s","s">>,
       <<"e","x","c","i","t","e","m","e","n","t">>, <<"a","n","x","i","e","t","y">>, <<"p","a","s","s","i","o","n">>,
       <<"r","a","g","e">>, <<"b","l","i","s","s">>, <<"t","e","r","r","o","r">>,
       <<"e","c","s","t","a","s","y">>, <<"d","e","s","p","a","i","r">>, <<"h","o","p","e">>,
       <<"d","r","e","a","d">> >>

intensifiers ==
    << <<"v","e","r","y">>, <<"e","x","t","r","e","m","e","l","y">>, <<"i","n","c","r","e","d","i","b","l","y">>,
       <<"a","b","s","o","l","u","t","e","l","y">>, <<"c","o","m","p","l","e","t","e","l","y">> >>

metaphors ==
    << <<"l","i","k","e">>, <<"a","s">>, <<"s","e","e","m","s">>,
       <<"a","p","p","e","a","r","s">>, <<"r","e","s","e","m","b","l","e","s">> >>

abstractWords ==
    << <<"c","o","n","s","c","i","o","u","s","n","e","s","s">>, <<"r","e","a","l","i","t","y">>, <<"e","x","i","s","t","e","n","c","e">>,
       <<"m","e","a","n","i","n","g">>, <<"p","u","r","p","o","s","e">>, <<"s","o","u","l">>,
       <<"s","p","i","r","i","t">>, <<"e","s","s","e","n","c","e">>, <<"t","r","u","t","h">>,
       <<"w","i","s","d","o","m">>, <<"e","n","l","i","g","h","t","e","n","m","e","n","t">>, <<"t","r","a","n","s","c","e","n","d","e","n","c","e">> >>

timeWords ==
    << <<"n","o","w">>, <<"t","h","e","n">>, <<"b","e","f","o","r","e">>,
       <<"a","f","t","e","r">>, <<"d","u","r","i","n","g">>, <<"w","h","i","l","e">>,
       <<"w","h","e","n">>, <<"u","n","t","i","l">> >>

transitionWords ==
    << <<"h","o","w","e","v","e","r">>, <<"t","h","e","r","e","f","o","r","e">>, <<"m","e","a","n","w","h","i","l","e">>,
       <<"c","o","n","s","e","q","u","e","n","t","l","y">>, <<"f","u","r","t","h","e","r","m","o","r","e">> >>

themeKeywords ==
    << [name |-> "transformation", keywords |->
          << <<"c","h","a","n","g","e">>, <<"t","r","a","n","s","f","o","r","m">>, <<"e","v","o","l","v","e">>, <<"b","e","c","o","m","e">>, <<"s","h","i","f","t">> >>],
       [name |-> "connection", keywords |->
          << <<"t","o","g","e","t","h","e","r">>, <<"b","o","n","d">>, <<"u","n","i","t","e">>, <<"c","o","n","n","e","c","t">>, <<"r","e","l","a","t","i","o","n","s","h","i","p">> >>],
       [name |-> "discovery", keywords |->
          << <<"f","i","n","d">>, <<"d","i","s","c","o","v","e","r">>, <<"r","e","v","e","a","l">>, <<"u","n","c","o","v","e","r">>, <<"e","x","p","l","o","r","e">> >>],
       [name |-> "conflict", keywords |->
          << <<"s","t","r","u","g","g","l","e">>, <<"f","i","g","h","t">>, <<"b","a","t","t","l","e">>, <<"o","p","p","o","s","e">>, <<"r","e","s","i","s","t">> >>],
       [name |-> "growth", keywords |->
          << <<"g","r","o","w">>, <<"d","e","v","e","l","o","p">>, <<"e","x","p","a","n","d">>, <<"p","r","o","g","r","e","s","s">>, <<"a","d","v","a","n","c","e">> >>],
       [name |-> "mystery", keywords |->
          << <<"u","n","k","n","o","w","n">>, <<"s","e","c","r","e","t">>, <<"h","i","d","d","e","n">>, <<"m","y","s","t","e","r","i","o","u","s">>, <<"e","n","i","g","m","a">> >>] >>

moodKeywords ==
    << [name |-> "contemplative", keywords |->
          << <<"t","h","i","n","k">>, <<"p","o","n","d","e","r">>, <<"r","e","f","l","e","c","t">>, <<"c","o","n","s","i","d","e","r">>, <<"w","o","n","d","e","r">> >>],
       [name |-> "energetic", keywords |->
          << <<"e","n","e","r","g","y">>, <<"p","o","w","e","r">>, <<"f","o","r","c","e">>, <<"d","y","n","a","m","i","c">>, <<"v","i","b","r","a","n","t">> >>],
       [name |-> "melancholic", keywords |->
          << <<"s","a","d">>, <<"s","o","r","r","o","w">>, <<"l","o","s","s">>, <<"g","r","i","e","f">>, <<"m","e","l","a","n","c","h","o","l","y">> >>],
       [name |-> "euphoric", keywords |->
          << <<"j","o","y">>, <<"b","l","i","s","s">>, <<"e","c","s","t","a","s","y">>, <<"e","l","a","t","i","o","n">>, <<"r","a","p","t","u","r","e">> >>],
       [name |-> "mysterious", keywords |->
          << <<"m","y","s","t","e","r","y">>, <<"e","n","i","g","m","a">>, <<"p","u","z","z","l","e">>, <<"r","i","d","d","l","e">>, <<"s","e","c","r","e","t">> >>] >>

archetypes ==
    << "The Seeker", "The Sage", "The Creator", "The Rebel", "The Hero",
       "The Lover", "The Jester", "The Caregiver", "The Ruler", "The Magician" >>

shapes == << "circle", "triangle", "square", "hexagon", "star", "spiral" >>

AI_PROVIDERS ==
    << [name |-> "Groq", model |-> "llama3-8b-8192", free |-> TRUE],
       [name |-> "Hugging Face", model |-> "microsoft/DialoGPT-medium", free |-> TRUE] >>

\* ------------------------------------------------------------ GlyphAnalyzer
SentenceSeps == {".", "!", "?"}
ClauseSeps == {",", ";", ":"}

\* min(100, avgWordLength * 10 + complexWords * 2 + sentenceComplexity)
calculateCognitiveLoad_Unclamped(s) ==
    LET words == SplitRuns(s, SpaceChars)
        avgWordLength == Rat(SumSeq([i \in 1..Len(words) |-> Len(words[i])]), Len(words))
        complexWords == Cardinality({i \in 1..Len(words) : Len(words[i]) > 6})
        sentences == SplitRuns(s, SentenceSeps)
        sentenceComplexity ==
            SumSeq([i \in 1..Len(sentences) |-> Len(SplitEach(sentences[i], ClauseSeps))])
    IN  RAdd(RMulInt(avgWordLength, 10), RInt(complexWords * 2 + sentenceComplexity))

calculateCognitiveLoad(s) ==
    LET words == SplitRuns(s, SpaceChars)
        avgWordLength == Rat(SumSeq([i \in 1..Len(words) |-> Len(words[i])]), Len(words))
        complexWords == Cardinality({i \in 1..Len(words) : Len(words[i]) > 6})
        sentences == SplitRuns(s, SentenceSeps)
        sentenceComplexity ==
            SumSeq([i \in 1..Len(sentences) |-> Len(SplitEach(sentences[i], ClauseSeps))])
    IN  RMin(RInt(100),
             RAdd(RMulInt(avgWordLength, 10), RInt(complexWords * 2 + sentenceComplexity)))

\* Matches of /[!?]{2,}/g: the maximal runs of ! and ? of length 2 or more.
PunctuationRuns(s) ==
    Cardinality({i \in 1..(Len(s) - 1) :
        /\ s[i] \in {"!", "?"}
        /\ s[i + 1] \in {"!", "?"}
        /\ (i = 1 \/ s[i - 1] \notin {"!", "?"})})

calculateEmotionalIntensity(s) ==
    LET punctuationIntensity == PunctuationRuns(s) * 10
        emotionalScore == LexiconScore(s, emotionalWords, 15)
        intensifierScore == LexiconScore(s, intensifiers, 5)
        total == emotionalScore + intensifierScore + punctuationIntensity
    IN  IF total < 100 THEN total ELSE 100

calculateSymbolicDensity(s) ==
    LET symbols == Cardinality({i \in 1..Len(s) : s[i] \notin WordChars \cup SpaceChars})
        metaphorCount == LexiconScore(s, metaphors, 1)
        abstractScore == LexiconScore(s, abstractWords, 20)
        total == symbols * 2 + metaphorCount * 10 + abstractScore
    IN  IF total < 100 THEN total ELSE 100

calculateTemporalFlow(s) ==
    LET timeScore == LexiconScore(s, timeWords, 8)
        transitionScore == LexiconScore(s, transitionWords, 12)
        total == timeScore + transitionScore
    IN  IF total < 100 THEN total ELSE 100

\* The sentences of a text that are not blank, in order.
NonBlankSentences(s) ==
    LET all == SplitRuns(s, SentenceSeps)
    IN  SelectSeqIdx(all, {i \in 1..Len(all) : NonBlank(all[i])}, 1)

\* Same walk as findEmergencePoints, each point put in front of the list.
findEmergencePoints_Unshift(s) ==
    LET sentences == NonBlankSentences(s)
        n == Len(sentences)
        hit == {i \in 1..n :
                   \/ calculateEmotionalIntensity(sentences[i]) > 60
                   \/ RLt(RInt(70), calculateCognitiveLoad(sentences[i]))}
        pts == SelectSeqIdx([i \in 1..n |-> Rat((i - 1) * 100, n)], hit, 1)
    IN  [k \in 1..Len(pts) |-> pts[Len(pts) + 1 - k]]

\* (index / sentences.length) * 100 for every sentence, index from 0, whose
\* own intensity exceeds 60 or whose own complexity exceeds 70.
findEmergencePoints(s) ==
    LET sentences == NonBlankSentences(s)
        n == Len(sentences)
        hit == {i \in 1..n :
                   \/ calculateEmotionalIntensity(sentences[i]) > 60
                   \/ RLt(RInt(70), calculateCognitiveLoad(sentences[i]))}
    IN  SelectSeqIdx([i \in 1..n |-> Rat((i - 1) * 100, n)], hit, 1)

RECURSIVE Join(_, _)
Join(strs, sep) ==
    IF strs = <<>> THEN ""
    ELSE IF Len(strs) = 1 THEN strs[1]
    ELSE strs[1] \o sep \o Join(Tail(strs), sep)

HasKeyword(s, keywords) ==
    LET ls == toLowerCase(s)
    IN  \E k \in 1..Len(keywords) : Includes(ls, keywords[k])

\* extractThemes with the empty list returned when no theme matches.
extractThemes_NoFallback(s) ==
    LET names == [k \in 1..Len(themeKeywords) |-> themeKeywords[k].name]
        has == {k \in 1..Len(themeKeywords) : HasKeyword(s, themeKeywords[k].keywords)}
    IN  SelectSeqIdx(names, has, 1)

extractThemes(s) ==
    LET names == [k \in 1..Len(themeKeywords) |-> themeKeywords[k].name]
        has == {k \in 1..Len(themeKeywords) : HasKeyword(s, themeKeywords[k].keywords)}
        themes == SelectSeqIdx(names, has, 1)
    IN  IF Len(themes) > 0 THEN themes ELSE <<"existence">>

extractMood(s) ==
    LET has == {k \in 1..Len(moodKeywords) : HasKeyword(s, moodKeywords[k].keywords)}
    IN  IF has = {} THEN "neutral"
        ELSE moodKeywords[CHOOSE k \in has : \A j \in has : k <= j].name

extractArchetype(s) == archetypes[(Len(s) % Len(archetypes)) + 1]

generateMeaningSignature(s) ==
    extractArchetype(s) \o " resonance with " \o extractMood(s)
        \o " undertones, exploring themes of " \o Join(extractThemes(s), ", ")

\* hsl(hue, saturation%, lightness%)
generateGlyphColor(cognitive, emotional, symbolic) ==
    LET total == RAdd(cognitive, RInt(emotional + symbolic))
        hue == RFloor(Rat(total[1] * 36, total[2] * 30))
        saturation == IF emotional > 50 THEN emotional ELSE 50
        lightness == RMax(RInt(30), RMin(RInt(70), RSub(RInt(100), cognitive)))
    IN  [fmt |-> "hsl", hue |-> hue, saturation |-> saturation, lightness |-> lightness]

\* generateGlyphData with the shape index clamped to the list instead of
\* taken modulo its length.
generateGlyphData_NoWrap(cognitive, emotional, symbolic) ==
    LET shapeIndex == RFloor(RDivInt(RAdd(cognitive, RInt(emotional)), 33))
    IN  [shape |-> shapes[(IF shapeIndex < Len(shapes) THEN shapeIndex ELSE Len(shapes) - 1) + 1],
         frequency |-> RMax(Rat(1, 2), Rat(emotional, 100)),
         color |-> generateGlyphColor(cognitive, emotional, symbolic),
         complexity |-> RFloor(RDivInt(RAdd(cognitive, RInt(symbolic)), 20))]

generateGlyphData(cognitive, emotional, symbolic) ==
    LET shapeIndex == RFloor(RDivInt(RAdd(cognitive, RInt(emotional)), 33)) % Len(shapes)
    IN  [shape |-> shapes[shapeIndex + 1],
         frequency |-> RMax(Rat(1, 2), Rat(emotional, 100)),
         color |-> generateGlyphColor(cognitive, emotional, symbolic),
         complexity |-> RFloor(RDivInt(RAdd(cognitive, RInt(symbolic)), 20))]

getDefaultAnalysis ==
    [cognitiveLoad |-> RInt(50),
     emotionalIntensity |-> 30,
     symbolicDensity |-> 40,
     temporalFlow |-> 35,
     emergencePoints |-> <<RInt(25), RInt(75)>>,
     meaningSignature |-> "Neutral resonance with contemplative undertones",
     glyphData |-> [shape |-> "circle",
                    frequency |-> Rat(1, 2),
                    color |-> [fmt |-> "hex", hex |-> "#8b5cf6"],
                    complexity |-> 3]]

\* The body of analyzeText's try block.  text.split is the first thing it
\* evaluates; on a value that is no string that call throws a TypeError.
analyzeTextTry(input) ==
    IF input.type # "string"
    THEN [threw |-> TRUE]
    ELSE LET s == input.chars
             cognitiveLoad == calculateCognitiveLoad(s)
             emotionalIntensity == calculateEmotionalIntensity(s)
             symbolicDensity == calculateSymbolicDensity(s)
         IN  [threw |-> FALSE,
              value |->
                [cognitiveLoad |-> cognitiveLoad,
                 emotionalIntensity |-> emotionalIntensity,
                 symbolicDensity |-> symbolicDensity,
                 temporalFlow |-> calculateTemporalFlow(s),
                 emergencePoints |-> findEmergencePoints(s),
                 meaningSignature |-> generateMeaningSignature(s),
                 glyphData |-> generateGlyphData(cognitiveLoad, emotionalIntensity,
                                                 symbolicDensity)]]

\* The value a rejected analyzeText promise would carry.
Rejected == [error |-> "TypeError"]

\* analyzeText with the catch clause rethrowing.
analyzeText_Rethrow(p, input) ==
    LET r == analyzeTextTry(input)
    IN  IF r.threw THEN Rejected ELSE r.value

\* analyzeText with the archetype picked by the provider's position.
analyzeText_ByProvider(p, input) ==
    LET r == analyzeTextTry(input)
    IN  IF r.threw THEN getDefaultAnalysis
        ELSE [r.value EXCEPT !.meaningSignature = AI_PROVIDERS[p].name \o ": " \o @]

\* analyzeText of the analyzer whose provider is AI_PROVIDERS[p].
analyzeText(p, input) ==
    LET r == analyzeTextTry(input)
    IN  IF r.threw THEN getDefaultAnalysis ELSE r.value

\* ------------------------------------------------------------------ inputs
Fragments ==
    << <<"l","o","v","e"," ","h","a","t","e"," ","f","e","a","r"," ","j","o","y"," ","r","a","g","e">>,
       <<" ">>, <<".">>, <<"!">>, <<",">>,
       <<"r","e","a","l","i","t","y">>,
       <<"N","o","w">> >>

RECURSIVE TextsUpTo(_)
TextsUpTo(k) ==
    IF k = 0 THEN {<<>>}
    ELSE LET shorter == TextsUpTo(k - 1)
         IN  shorter \cup {t \o Fragments[i] : t \in shorter, i \in 1..Len(Fragments)}

Texts == TextsUpTo(MaxFragments)

StringInputs == {[type |-> "string", chars |-> t] : t \in Texts}
\* Values that are no string, as an untyped caller can pass them.
NonStringInputs == {[type |-> "null", chars |-> <<>>], [type |-> "undefined", chars |-> <<>>]}
Inputs == StringInputs \cup NonStringInputs

NoResult == [none |-> TRUE]

\* ------------------------------------------------- numbers of the renderer
\* Math.ceil(a / b) for a >= 0, b > 0.
CeilDiv(a, b) == (a + b - 1) \div b

Min2(a, b) == IF a <= b THEN a ELSE b

\* Math.sqrt, rounded down to an integer.
RECURSIVE IsqrtIter(_, _)
IsqrtIter(n, x) ==
    LET y == (x + n \div x) \div 2
    IN  IF y >= x THEN x ELSE IsqrtIter(n, y)

Isqrt(n) == IF n = 0 THEN 0 ELSE IsqrtIter(n, n)

\* Math.PI and 2 * Math.PI in thousandths of a radian.
PiMilli == 3142
TwoPiMilli == 6283

\* Math.sin of x thousandths of a radian, in thousandths: the rational
\* approximation 16 t (pi - t) / (5 pi^2 - 4 t (pi - t)) on [0, pi], which is
\* within 0.002 of the sine, continued by sin(t + pi) = -sin(t).
SinHalfWave(t) ==
    LET q == t * (PiMilli - t)
    IN  (16 * q) \div ((5 * PiMilli * PiMilli - 4 * q) \div 1000)

SinMilli(x) ==
    LET t == x % TwoPiMilli
    IN  IF t <= PiMilli THEN SinHalfWave(t) ELSE -SinHalfWave(t - PiMilli)

\* Math.cos(x) = Math.sin(x + pi / 2)
CosMilli(x) == SinMilli(x + PiMilli \div 2)

\* ------------------------------------------------------------ Math.random
\* Math.random is a deterministic generator with hidden state; here a linear
\* congruential one over 0..RngMod-1 whose draw in state r is r / RngMod.
Rand(r) == Rat(r, RngMod)
NextRng(r) == (5 * r + 3) % RngMod

\* --------------------------------------------------------------- Particle
\* Width and height Particle.respawn assumes for the canvas.
RespawnWidth == 800
RespawnHeight == 600

\* new Particle(Math.random() * width, Math.random() * height, color): six
\* draws, in the order x, y, vx, vy, size, maxLife.  The fields x and y hold
\* the point the particle was last placed at by the constructor or by
\* respawn; the drift that update adds to them tick by tick is not tracked.
NewParticle(r1, width, height, color) ==
    LET r2 == NextRng(r1)
        r3 == NextRng(r2)
        r4 == NextRng(r3)
        r5 == NextRng(r4)
        r6 == NextRng(r5)
        maxLife == Rat(100 * r6 + 50 * RngMod, RngMod)
    IN  [p |-> [x |-> Rat(r1 * width, RngMod),
                y |-> Rat(r2 * height, RngMod),
                vx |-> Rat(2 * r3 - RngMod, RngMod),
                vy |-> Rat(2 * r4 - RngMod, RngMod),
                color |-> color,
                size |-> Rat(3 * r5 + RngMod, RngMod),
                maxLife |-> maxLife,
                life |-> maxLife],
         rng |-> NextRng(r6)]

\* Particle.respawn with life left as it is.
respawn_LifeKept(p, r1, width, height) ==
    LET r2 == NextRng(r1)
        r3 == NextRng(r2)
        r4 == NextRng(r3)
    IN  [p |-> [p EXCEPT !.x = Rat(r1 * RespawnWidth, RngMod),
                         !.y = Rat(r2 * RespawnHeight, RngMod),
                         !.vx = Rat(2 * r3 - RngMod, RngMod),
                         !.vy = Rat(2 * r4 - RngMod, RngMod)],
         rng |-> NextRng(r4)]

\* Particle.respawn: four draws; the position is drawn from 800 x 600
\* whatever the canvas (width, height) is.
respawn(p, r1, width, height) ==
    LET r2 == NextRng(r1)
        r3 == NextRng(r2)
        r4 == NextRng(r3)
    IN  [p |-> [p EXCEPT !.x = Rat(r1 * RespawnWidth, RngMod),
                         !.y = Rat(r2 * RespawnHeight, RngMod),
                         !.vx = Rat(2 * r3 - RngMod, RngMod),
                         !.vy = Rat(2 * r4 - RngMod, RngMod),
                         !.life = p.maxLife],
         rng |-> NextRng(r4)]

\* Particle.update: this.life--, then respawn when life <= 0.
ParticleUpdate(p, r, width, height) ==
    LET aged == [p EXCEPT !.life = RSub(p.life, RInt(1))]
    IN  IF RLe(aged.life, RInt(0))
        THEN LET re == respawn(aged, r, width, height)
             IN  [p |-> re.p, rng |-> re.rng, respawned |-> 1]
        ELSE [p |-> aged, rng |-> r, respawned |-> 0]

\* initializeParticles: floor(symbolicDensity / 10) + 10 new particles.
particleCount(analysis) == analysis.symbolicDensity \div 10 + 10

RECURSIVE NewParticles(_, _, _, _, _)
NewParticles(n, r, width, height, color) ==
    IF n = 0 THEN [ps |-> <<>>, rng |-> r]
    ELSE LET one == NewParticle(r, width, height, color)
             rest == NewParticles(n - 1, one.rng, width, height, color)
         IN  [ps |-> <<one.p>> \o rest.ps, rng |-> rest.rng]

\* initializeParticles with the old particles kept and the new ones added.
initializeParticles_Append(old, analysis, cv, r) ==
    LET made == NewParticles(particleCount(analysis), r, cv.width, cv.height,
                             analysis.glyphData.color)
    IN  [ps |-> old \o made.ps, rng |-> made.rng]

initializeParticles(old, analysis, cv, r) ==
    NewParticles(particleCount(analysis), r, cv.width, cv.height,
                 analysis.glyphData.color)

\* updateAndRenderParticles with a particle whose life ran out removed from
\* the collection instead of respawned.
RECURSIVE UpdateParticles_DropDead(_, _, _, _)
UpdateParticles_DropDead(ps, r, width, height) ==
    IF ps = <<>> THEN [ps |-> <<>>, rng |-> r, respawned |-> 0]
    ELSE LET one == ParticleUpdate(Head(ps), r, width, height)
             rest == UpdateParticles_DropDead(Tail(ps), r, width, height)
         IN  [ps |-> (IF one.respawned = 1 THEN <<>> ELSE <<one.p>>) \o rest.ps,
              rng |-> rest.rng,
              respawned |-> one.respawned + rest.respawned]

\* The forEach of updateAndRenderParticles: every particle updated in order,
\* the generator threaded through the respawns.
RECURSIVE UpdateParticles(_, _, _, _)
UpdateParticles(ps, r, width, height) ==
    IF ps = <<>> THEN [ps |-> <<>>, rng |-> r, respawned |-> 0]
    ELSE LET one == ParticleUpdate(Head(ps), r, width, height)
             rest == UpdateParticles(Tail(ps), one.rng, width, height)
         IN  [ps |-> <<one.p>> \o rest.ps, rng |-> rest.rng,
              respawned |-> one.respawned + rest.respawned]

\* --------------------------------------------------------- ResonanceField
gridSize == 20

\* initializeField: ceil(height / 20) rows of ceil(width / 20) zeros.
initializeField(width, height) ==
    [i \in 1..CeilDiv(height, gridSize) |-> [j \in 1..CeilDiv(width, gridSize) |-> 0]]

\* resize with the grid left as it was.
resize_NoRebuild(f, width, height) ==
    [width |-> width, height |-> height, field |-> f.field]

\* resize(width, height)
resize(f, width, height) ==
    [width |-> width, height |-> height, field |-> initializeField(width, height)]

\* this.field[0].length, which update and render both start with, is a
\* TypeError on a grid of no rows.
FieldThrows(f) == Len(f.field) = 0

\* The value update gives cell (i, j), counted from 0, at `ms` milliseconds
\* of elapsed time, in thousandths.
CellValue(i, j, rows, cols, analysis, ms) ==
    LET dx2 == 2 * j - cols
        dy2 == 2 * i - rows
        distance == Isqrt((dx2 * dx2 + dy2 * dy2) * 250000)
        freq == analysis.glyphData.frequency
        cog == analysis.cognitiveLoad
        wave1 == (SinMilli((distance * 3) \div 10 - (ms * 2 * freq[1]) \div freq[2])
                    * analysis.emotionalIntensity) \div 100
        wave2 == (CosMilli((distance * 2) \div 10 + (ms * analysis.temporalFlow) \div 50)
                    * cog[1]) \div (cog[2] * 100)
    IN  (wave1 + wave2) \div 2

\* update(analysis, time) on a grid that has a row.
update(f, analysis, ms) ==
    LET rows == Len(f.field)
        cols == Len(f.field[1])
    IN  [f EXCEPT !.field =
            [i \in 1..rows |-> [j \in 1..cols |->
                CellValue(i - 1, j - 1, rows, cols, analysis, ms)]]]

\* Math.min(0.3, Math.abs(value) * 0.5) > 0.05 for a cell value in
\* thousandths; opacities compared in ten-thousandths.
Visible(value) == Min2(3000, Abs(value) * 5) > 500

\* render(ctx) on a grid that has a row: the cells it fills a rectangle
\* for, as <<row, column>> counted from 0.  Its loops run while
\* i < rows - 1 and j < cols - 1.
FieldRender(f) ==
    LET rows == Len(f.field)
        cols == Len(f.field[1])
    IN  {<<i, j>> \in (0..(rows - 2)) \X (0..(cols - 2)) : Visible(f.field[i + 1][j + 1])}

\* ---------------------------------------------------------- GlyphRenderer
NullId == 0
NoRun == [none |-> TRUE]

\* Canvas sizes the caller asks for, as <<width, height>>.
Sizes == {<<120, 120>>, <<150, 130>>, <<45, 0>>}

\* Analyses the caller renders: the default vector and analyzer results.
RenderAnalyses ==
    {getDefaultAnalysis,
     analyzeText(1, [type |-> "string", chars |-> Fragments[1]])}

RenderOptions ==
    {[width |-> sz[1], height |-> sz[2], animate |-> an, showParticles |-> sp,
      showResonanceField |-> sf] :
        sz \in Sizes, an \in BOOLEAN, sp \in BOOLEAN, sf \in BOOLEAN}

\* cancelAnimationFrame(id) of the host.
cancelAnimationFrame(pend, id) == {cb \in pend : cb.id # id}

\* renderCircleGlyph, also the default case of the shape switch, calls
\* ctx.arc with radius (size / 2) * (1 - i * 0.2) for i < rings, and arc
\* throws on a negative radius.
GlyphThrows(analysis, cv) ==
    /\ analysis.glyphData.shape \notin {"triangle", "square", "hexagon", "star", "spiral"}
    /\ Min2(cv.width, cv.height) > 0
    /\ analysis.glyphData.complexity \div 2 > 6

\* renderFrequencyRings calls ctx.arc with radius
\* maxRadius * (0.3 + i * 0.2) + Math.sin(time * 2 + i) * 20 for i < 3, which
\* throws when that is negative.  In thousandths of a pixel.
RingsThrow(cv, ms) ==
    \E i \in 0..2 :
        Min2(cv.width, cv.height) * 60 * (3 + 2 * i) + SinMilli(2 * ms + 1000 * i) * 20 < 0

\* renderFrame with the particles drawn after the frequency rings.
renderFrame_ParticlesLast(analysis, options, ms) ==
    LET same == [field |-> resonanceField, ps |-> particles, rng |-> rng, respawned |-> {}]
        fieldOn == options.showResonanceField
        fieldBad == fieldOn /\ FieldThrows(resonanceField)
        f1 == IF fieldOn /\ ~fieldBad THEN update(resonanceField, analysis, ms)
              ELSE resonanceField
        d1 == IF fieldOn /\ ~fieldBad THEN <<"fade", "field">> ELSE <<"fade">>
        glyphBad == GlyphThrows(analysis, canvas)
        up == UpdateParticles(particles, rng, canvas.width, canvas.height)
        hit == {i \in 1..Len(particles) : RLe(RSub(particles[i].life, RInt(1)), RInt(0))}
        moved == IF options.showParticles
                 THEN [field |-> f1, ps |-> up.ps, rng |-> up.rng, respawned |-> hit]
                 ELSE [field |-> f1, ps |-> particles, rng |-> rng, respawned |-> {}]
        last == IF options.showParticles THEN <<"particles">> ELSE <<>>
    IN  IF fieldBad THEN same @@ [drew |-> d1, threw |-> TRUE]
        ELSE IF glyphBad THEN [same EXCEPT !.field = f1] @@ [drew |-> d1, threw |-> TRUE]
        ELSE IF RingsThrow(canvas, ms)
             THEN [same EXCEPT !.field = f1]
                  @@ [drew |-> d1 \o <<"glyph", "markers">>, threw |-> TRUE]
             ELSE moved @@ [drew |-> d1 \o <<"glyph", "markers", "rings">> \o last,
                            threw |-> FALSE]

\* renderFrame with the particles updated in every frame and only their
\* drawing left to showParticles.
renderFrame_AlwaysUpdates(analysis, options, ms) ==
    LET same == [field |-> resonanceField, ps |-> particles, rng |-> rng, respawned |-> {}]
        fieldOn == options.showResonanceField
        fieldBad == fieldOn /\ FieldThrows(resonanceField)
        f1 == IF fieldOn /\ ~fieldBad THEN update(resonanceField, analysis, ms)
              ELSE resonanceField
        d1 == IF fieldOn /\ ~fieldBad THEN <<"fade", "field">> ELSE <<"fade">>
        glyphBad == GlyphThrows(analysis, canvas)
        up == UpdateParticles(particles, rng, canvas.width, canvas.height)
        hit == {i \in 1..Len(particles) : RLe(RSub(particles[i].life, RInt(1)), RInt(0))}
        d3 == IF options.showParticles THEN d1 \o <<"glyph", "particles">>
              ELSE d1 \o <<"glyph">>
        moved == [field |-> f1, ps |-> up.ps, rng |-> up.rng, respawned |-> hit]
    IN  IF fieldBad THEN same @@ [drew |-> d1, threw |-> TRUE]
        ELSE IF glyphBad THEN [same EXCEPT !.field = f1] @@ [drew |-> d1, threw |-> TRUE]
        ELSE IF RingsThrow(canvas, ms)
             THEN moved @@ [drew |-> d3 \o <<"markers">>, threw |-> TRUE]
             ELSE moved @@ [drew |-> d3 \o <<"markers", "rings">>, threw |-> FALSE]

\* renderFrame(analysis, options, time) on the renderer's current state:
\* the layers in order, cut short by the first one that throws.
renderFrame(analysis, options, ms) ==
    LET same == [field |-> resonanceField, ps |-> particles, rng |-> rng, respawned |-> {}]
        fieldOn == options.showResonanceField
        fieldBad == fieldOn /\ FieldThrows(resonanceField)
        f1 == IF fieldOn /\ ~fieldBad THEN update(resonanceField, analysis, ms)
              ELSE resonanceField
        d1 == IF fieldOn /\ ~fieldBad THEN <<"fade", "field">> ELSE <<"fade">>
        glyphBad == GlyphThrows(analysis, canvas)
        up == UpdateParticles(particles, rng, canvas.width, canvas.height)
        hit == {i \in 1..Len(particles) : RLe(RSub(particles[i].life, RInt(1)), RInt(0))}
        d3 == IF options.showParticles THEN d1 \o <<"glyph", "particles">>
              ELSE d1 \o <<"glyph">>
        moved == IF options.showParticles
                 THEN [field |-> f1, ps |-> up.ps, rng |-> up.rng, respawned |-> hit]
                 ELSE [field |-> f1, ps |-> particles, rng |-> rng, respawned |-> {}]
    IN  IF fieldBad THEN same @@ [drew |-> d1, threw |-> TRUE]
        ELSE IF glyphBad THEN [same EXCEPT !.field = f1] @@ [drew |-> d1, threw |-> TRUE]
        ELSE IF RingsThrow(canvas, ms)
             THEN moved @@ [drew |-> d3 \o <<"markers">>, threw |-> TRUE]
             ELSE moved @@ [drew |-> d3 \o <<"markers", "rings">>, threw |-> FALSE]

\* startAnimation without the cancelAnimationFrame of the previous handle.
startAnimation_NoCancel(analysis, options, cv) ==
    LET made == initializeParticles(particles, analysis, cv, rng)
    IN  [animationId |-> nextHandle,
         startTime |-> now,
         particles |-> made.ps,
         rng |-> made.rng,
         pending |-> pending \cup
                        {[id |-> nextHandle, analysis |-> analysis, options |-> options]},
         nextHandle |-> nextHandle + 1]

\* startAnimation with the clock origin of a running animation kept.
startAnimation_KeepClock(analysis, options, cv) ==
    LET kept == IF animationId # NullId THEN cancelAnimationFrame(pending, animationId)
                ELSE pending
        made == initializeParticles(particles, analysis, cv, rng)
    IN  [animationId |-> nextHandle,
         startTime |-> IF animationId # NullId THEN startTime ELSE now,
         particles |-> made.ps,
         rng |-> made.rng,
         pending |-> kept \cup
                        {[id |-> nextHandle, analysis |-> analysis, options |-> options]},
         nextHandle |-> nextHandle + 1]

\* startAnimation(analysis, options) with the canvas already set to cv: what
\* it leaves in animationId, startTime, particles and in the host.
startAnimation(analysis, options, cv) ==
    LET kept == IF animationId # NullId THEN cancelAnimationFrame(pending, animationId)
                ELSE pending
        made == initializeParticles(particles, analysis, cv, rng)
    IN  [animationId |-> nextHandle,
         startTime |-> now,
         particles |-> made.ps,
         rng |-> made.rng,
         pending |-> kept \cup
                        {[id |-> nextHandle, analysis |-> analysis, options |-> options]},
         nextHandle |-> nextHandle + 1]

\* renderStatic that also draws the frequency rings.
renderStatic_WithRings(analysis, cv) ==
    IF GlyphThrows(analysis, cv) THEN [threw |-> TRUE, drew |-> <<"clear">>]
    ELSE [threw |-> FALSE, drew |-> <<"clear", "glyph", "markers", "rings">>]

\* renderStatic(analysis, options) with the canvas already set to cv: the
\* surface cleared, then renderMainGlyph and renderEmergencePoints at time 0.
renderStatic(analysis, cv) ==
    IF GlyphThrows(analysis, cv) THEN [threw |-> TRUE, drew |-> <<"clear">>]
    ELSE [threw |-> FALSE, drew |-> <<"clear", "glyph", "markers">>]

\* render whose static path hands its analysis and options to the frame
\* callback that is pending.
RenderCall_StaticRebinds(analysis, options, maxCalls) ==
    LET cv == [width |-> options.width, height |-> options.height]
        st == startAnimation(analysis, options, cv)
    IN  /\ calls < maxCalls
        /\ calls' = calls + 1
        /\ canvas' = cv
        /\ resonanceField' = resize(resonanceField, options.width, options.height)
        /\ lastOp' = "render"
        /\ respawns' = {}
        /\ IF options.animate
           THEN /\ animationId' = st.animationId
                /\ startTime' = st.startTime
                /\ particles' = st.particles
                /\ rng' = st.rng
                /\ pending' = st.pending
                /\ nextHandle' = st.nextHandle
                /\ run' = [analysis |-> analysis, options |-> options, at |-> now]
                /\ stopped' = FALSE
                /\ threw' = FALSE
                /\ drew' = <<>>
           ELSE /\ threw' = renderStatic(analysis, cv).threw
                /\ drew' = renderStatic(analysis, cv).drew
                /\ pending' = {[cb EXCEPT !.analysis = analysis, !.options = options] :
                                  cb \in pending}
                /\ UNCHANGED <<animationId, startTime, particles, rng,
                               nextHandle, run, stopped>>
        /\ UNCHANGED <<now, getContextCalls>>
        /\ UNCHANGED <<avars, gvars, svars, vvars>>

\* render(analysis, options), as the caller's call number calls + 1.
RenderCall(analysis, options, maxCalls) ==
    LET cv == [width |-> options.width, height |-> options.height]
        st == startAnimation(analysis, options, cv)
    IN  /\ calls < maxCalls
        /\ calls' = calls + 1
        /\ canvas' = cv
        /\ resonanceField' = resize(resonanceField, options.width, options.height)
        /\ lastOp' = "render"
        /\ respawns' = {}
        /\ IF options.animate
           THEN /\ animationId' = st.animationId
                /\ startTime' = st.startTime
                /\ particles' = st.particles
                /\ rng' = st.rng
                /\ pending' = st.pending
                /\ nextHandle' = st.nextHandle
                /\ run' = [analysis |-> analysis, options |-> options, at |-> now]
                /\ stopped' = FALSE
                /\ threw' = FALSE
                /\ drew' = <<>>
           ELSE /\ threw' = renderStatic(analysis, cv).threw
                /\ drew' = renderStatic(analysis, cv).drew
                /\ UNCHANGED <<animationId, startTime, particles, rng, pending,
                               nextHandle, run, stopped>>
        /\ UNCHANGED <<now, getContextCalls>>
        /\ UNCHANGED <<avars, gvars, svars, vvars>>

\* stopAnimation with the handle forgotten but the frame not cancelled.
stopAnimation_NoCancel ==
    [animationId |-> NullId, pending |-> pending]

\* stopAnimation(): what it leaves in animationId and in the host.
stopAnimation ==
    IF animationId # NullId
    THEN [animationId |-> NullId, pending |-> cancelAnimationFrame(pending, animationId)]
    ELSE [animationId |-> animationId, pending |-> pending]

StopCall(maxCalls) ==
    /\ calls < maxCalls
    /\ calls' = calls + 1
    /\ animationId' = stopAnimation.animationId
    /\ pending' = stopAnimation.pending
    /\ stopped' = (stopped \/ pending # {})
    /\ lastOp' = "stop"
    /\ threw' = FALSE
    /\ drew' = <<>>
    /\ respawns' = {}
    /\ UNCHANGED <<canvas, startTime, particles, resonanceField, nextHandle, now, rng, run,
                   getContextCalls>>
    /\ UNCHANGED <<avars, gvars, svars, vvars>>

\* The host runs the frame callback cb at time now + FrameMs: the closure
\* `animate` of startAnimation draws a frame and requests the next one; a
\* frame that throws leaves the callback without the request.
Tick(cb, maxNow) ==
    LET t == now + FrameMs
        fr == renderFrame(cb.analysis, cb.options, t - startTime)
    IN  /\ cb \in pending
        /\ t <= maxNow
        /\ now' = t
        /\ resonanceField' = fr.field
        /\ particles' = fr.ps
        /\ rng' = fr.rng
        /\ respawns' = fr.respawned
        /\ drew' = fr.drew
        /\ threw' = fr.threw
        /\ lastOp' = "tick"
        /\ IF fr.threw
           THEN /\ pending' = pending \ {cb}
                /\ UNCHANGED <<animationId, nextHandle>>
           ELSE /\ animationId' = nextHandle
                /\ pending' = (pending \ {cb}) \cup {[cb EXCEPT !.id = nextHandle]}
                /\ nextHandle' = nextHandle + 1
        /\ UNCHANGED <<canvas, startTime, calls, run, stopped, getContextCalls>>
        /\ UNCHANGED <<avars, gvars, svars, vvars>>

\* The resonanceField of a renderer whose constructor threw before it
\* constructed one.
NoField == [none |-> TRUE]

\* The constructor with a second getContext call after a null one and the
\* field built before the context is looked at.
GlyphRendererNew_Retry(sz, hasContext) ==
    [threw |-> ~hasContext,
     getContextCalls |-> IF hasContext THEN 1 ELSE 2,
     resonanceField |-> resize([width |-> 0, height |-> 0, field |-> <<>>], sz[1], sz[2])]

\* constructor(canvas) on a canvas of size sz: getContext('2d') once, an
\* Error thrown when it returned null, else new ResonanceField(width, height).
GlyphRendererNew(sz, hasContext) ==
    IF hasContext
    THEN [threw |-> FALSE,
          getContextCalls |-> 1,
          resonanceField |-> resize([width |-> 0, height |-> 0, field |-> <<>>], sz[1], sz[2])]
    ELSE [threw |-> TRUE, getContextCalls |-> 1, resonanceField |-> NoField]

\* new GlyphRenderer(canvas) on a canvas of size sz whose 2D context exists.
NewRenderer(sz) ==
    /\ canvas = [width |-> sz[1], height |-> sz[2]]
    /\ animationId = NullId
    /\ startTime = 0
    /\ particles = <<>>
    /\ resonanceField = GlyphRendererNew(sz, TRUE).resonanceField
    /\ getContextCalls = GlyphRendererNew(sz, TRUE).getContextCalls
    /\ calls = 0
    /\ lastOp = "new"
    /\ threw = FALSE
    /\ drew = <<>>
    /\ stopped = FALSE
    /\ respawns = {}
    /\ run = NoRun

\* The host before any frame was requested.
NewHost ==
    /\ pending = {}
    /\ nextHandle = 1
    /\ now = 0

\* ---------------------------------------------------------- SessionManager
MAX_ENTRIES == 100

\* localStorage without the item.
NoItem == [none |-> TRUE]

\* What a call that returns nothing returns.
Undefined == [undefined |-> TRUE]

\* createNewSession(): no entries, saveHistory on.
createNewSession ==
    [entries |-> <<>>, totalAnalyses |-> 0, favoriteGlyphs |-> <<>>, saveHistory |-> TRUE]

\* generateTags(analysis)
generateTags(analysis) ==
    (IF RLt(RInt(70), analysis.cognitiveLoad) THEN <<"complex">> ELSE <<>>)
    \o (IF analysis.emotionalIntensity > 70 THEN <<"intense">> ELSE <<>>)
    \o (IF analysis.symbolicDensity > 70 THEN <<"symbolic">> ELSE <<>>)
    \o (IF analysis.temporalFlow > 70 THEN <<"dynamic">> ELSE <<>>)
    \o <<analysis.glyphData.shape>>
    \o (IF Len(analysis.emergencePoints) > 2 THEN <<"emergent">> ELSE <<>>)

\* entries.sort((a, b) => b.timestamp - a.timestamp): latest first, entries
\* of one timestamp in the order they had (the sort is stable).
RECURSIVE SortLatestFirstFrom(_, _)
SortLatestFirstFrom(entries, times) ==
    IF times = {} THEN <<>>
    ELSE LET latest == CHOOSE t \in times : \A u \in times : u <= t
             ofLatest(e) == e.timestamp = latest
         IN  SelectSeq(entries, ofLatest) \o SortLatestFirstFrom(entries, times \ {latest})

SortLatestFirst(entries) ==
    SortLatestFirstFrom(entries, {entries[i].timestamp : i \in 1..Len(entries)})

\* String/Array slice(0, n)
Take(seq, n) == SubSeq(seq, 1, IF n < Len(seq) THEN n ELSE Len(seq))

\* cleanupOldEntries(): the floor(MAX_ENTRIES * 0.7) entries of latest timestamp.
cleanupOldEntries(session) ==
    [session EXCEPT !.entries = Take(SortLatestFirst(session.entries), (MAX_ENTRIES * 7) \div 10)]

\* What localStorage.setItem does: stores the item, throws the
\* DOMException of code 22 (quota exceeded), or throws something else.
SetItemOutcomes == {"stored", "quota", "error"}

\* saveSession() when the first setItem ends as o1 and the retry, if one is
\* made, as o2: the session and the item it leaves, and the setItem calls made.
saveSession(session, item, o1, o2) ==
    IF o1 = "stored"
    THEN [session |-> session, item |-> session, setItems |-> <<o1>>]
    ELSE IF o1 = "quota"
    THEN LET cleaned == cleanupOldEntries(session)
         IN  [session |-> cleaned,
              item |-> IF o2 = "stored" THEN cleaned ELSE item,
              setItems |-> <<o1, o2>>]
    ELSE [session |-> session, item |-> item, setItems |-> <<o1>>]

\* Outcomes of the two setItem calls that differ in what saveSession does.
SaveOutcomes ==
    {<<"stored", "stored">>, <<"error", "error">>} \cup {<<"quota", o2>> : o2 \in SetItemOutcomes}

\* Sessions the caller hands to importSession: n entries of one timestamp,
\* either before or after every value the clock takes.
ImportSizes == {0, 69, 70, 100}
ImportTimes == {0, MaxSessionCalls + 5}
ImportSessions ==
    {[entries |-> [k \in 1..n |-> [id |-> -k, timestamp |-> t, tags |-> <<>>]],
      totalAnalyses |-> n,
      favoriteGlyphs |-> <<>>,
      saveHistory |-> sh] : n \in ImportSizes, t \in ImportTimes, sh \in BOOLEAN}

\* new SessionManager() with nothing in localStorage.
NewSessionManager ==
    /\ currentSession = createNewSession
    /\ storage = NoItem
    /\ clock = 1
    /\ nextId = 1
    /\ sessionCalls = 0
    /\ sessionOp = "new"
    /\ returned = Undefined
    /\ sessionThrew = FALSE
    /\ setItems = <<>>

\* No SessionManager is part of the behaviours.
SessionUnused == NewSessionManager

\* addEntry(inputType, inputData, analysis) with Date.now() returning t.
AddEntry(analysis, t, outcomes) ==
    LET entry == [id |-> nextId, timestamp |-> t, tags |-> generateTags(analysis)]
        added == [currentSession EXCEPT
                     !.entries = Take(<<entry>> \o currentSession.entries, MAX_ENTRIES),
                     !.totalAnalyses = @ + 1]
        saved == saveSession(added, storage, outcomes[1], outcomes[2])
    IN  /\ sessionCalls < MaxSessionCalls
        /\ sessionCalls' = sessionCalls + 1
        /\ t >= clock
        /\ clock' = t
        /\ nextId' = nextId + 1
        /\ sessionOp' = "addEntry"
        /\ returned' = entry
        /\ sessionThrew' = FALSE
        /\ IF added.saveHistory
           THEN /\ currentSession' = saved.session
                /\ storage' = saved.item
                /\ setItems' = saved.setItems
           ELSE /\ currentSession' = added
                /\ storage' = storage
                /\ setItems' = <<>>
        /\ UNCHANGED <<avars, rvars, gvars, vvars>>

\* updatePreferences({saveHistory: v})
UpdatePreferences(v, outcomes) ==
    LET saved == saveSession([currentSession EXCEPT !.saveHistory = v], storage,
                             outcomes[1], outcomes[2])
    IN  /\ sessionCalls < MaxSessionCalls
        /\ sessionCalls' = sessionCalls + 1
        /\ sessionOp' = "updatePreferences"
        /\ currentSession' = saved.session
        /\ storage' = saved.item
        /\ setItems' = saved.setItems
        /\ returned' = Undefined
        /\ sessionThrew' = FALSE
        /\ UNCHANGED <<clock, nextId>>
        /\ UNCHANGED <<avars, rvars, gvars, vvars>>

\* importSession(JSON.stringify(imported)) of a session with an id and an
\* array of entries.
ImportSession(imported, outcomes) ==
    LET saved == saveSession(imported, storage, outcomes[1], outcomes[2])
    IN  /\ sessionCalls < MaxSessionCalls
        /\ sessionCalls' = sessionCalls + 1
        /\ sessionOp' = "importSession"
        /\ currentSession' = saved.session
        /\ storage' = saved.item
        /\ setItems' = saved.setItems
        /\ returned' = TRUE
        /\ sessionThrew' = FALSE
        /\ UNCHANGED <<clock, nextId>>
        /\ UNCHANGED <<avars, rvars, gvars, vvars>>

\* entries.findIndex(entry => entry.id === id), from 1; 0 stands for -1.
findIndex(entries, id) ==
    LET found == {i \in 1..Len(entries) : entries[i].id = id}
    IN  IF found = {} THEN 0 ELSE CHOOSE i \in found : \A j \in found : i <= j

\* favoriteGlyphs.indexOf(glyphSnapshot), from 1; 0 stands for -1.
indexOf(seq, x) ==
    LET found == {i \in 1..Len(seq) : seq[i] = x}
    IN  IF found = {} THEN 0 ELSE CHOOSE i \in found : \A j \in found : i <= j

\* Array.prototype.splice(index, 1), index from 1.
splice(seq, index) == SubSeq(seq, 1, index - 1) \o SubSeq(seq, index + 1, Len(seq))

\* Ids the caller passes to updateEntry and deleteEntry: the first id
\* generateId makes, the first of an imported session, and one no entry has.
EntryIds == {1, -1, 0}

\* The updates the caller passes to updateEntry.
EntryUpdates == {[tags |-> <<"edited">>]}

\* Snapshots the caller passes to addToFavorites and removeFromFavorites.
GlyphSnapshots == {"snapshot"}

\* A call that ends with saveSession() of the session `changed`.
ThenSave(op, changed, ret, outcomes) ==
    LET saved == saveSession(changed, storage, outcomes[1], outcomes[2])
    IN  /\ sessionCalls < MaxSessionCalls
        /\ sessionCalls' = sessionCalls + 1
        /\ sessionOp' = op
        /\ currentSession' = saved.session
        /\ storage' = saved.item
        /\ setItems' = saved.setItems
        /\ returned' = ret
        /\ sessionThrew' = FALSE
        /\ UNCHANGED <<clock, nextId>>
        /\ UNCHANGED <<avars, rvars, gvars, vvars>>

\* A call that changes nothing and saves nothing.
NothingToSave(op, ret) ==
    /\ sessionCalls < MaxSessionCalls
    /\ sessionCalls' = sessionCalls + 1
    /\ sessionOp' = op
    /\ setItems' = <<>>
    /\ returned' = ret
    /\ sessionThrew' = FALSE
    /\ UNCHANGED <<currentSession, storage, clock, nextId>>
    /\ UNCHANGED <<avars, rvars, gvars, vvars>>

\* updateEntry(id, updates)
UpdateEntry(id, updates, outcomes) ==
    LET index == findIndex(currentSession.entries, id)
    IN  IF index # 0
        THEN ThenSave("updateEntry",
                      [currentSession EXCEPT !.entries[index].tags = updates.tags],
                      TRUE, outcomes)
        ELSE NothingToSave("updateEntry", FALSE)

\* deleteEntry(id)
DeleteEntry(id, outcomes) ==
    LET index == findIndex(currentSession.entries, id)
    IN  IF index # 0
        THEN ThenSave("deleteEntry",
                      [currentSession EXCEPT !.entries = splice(@, index)],
                      TRUE, outcomes)
        ELSE NothingToSave("deleteEntry", FALSE)

\* addToFavorites(glyphSnapshot)
AddToFavorites(glyphSnapshot, outcomes) ==
    IF indexOf(currentSession.favoriteGlyphs, glyphSnapshot) = 0
    THEN ThenSave("addToFavorites",
                  [currentSession EXCEPT !.favoriteGlyphs = Append(@, glyphSnapshot)],
                  Undefined, outcomes)
    ELSE NothingToSave("addToFavorites", Undefined)

\* removeFromFavorites(glyphSnapshot)
RemoveFromFavorites(glyphSnapshot, outcomes) ==
    LET index == indexOf(currentSession.favoriteGlyphs, glyphSnapshot)
    IN  IF index # 0
        THEN ThenSave("removeFromFavorites",
                      [currentSession EXCEPT !.favoriteGlyphs = splice(@, index)],
                      Undefined, outcomes)
        ELSE NothingToSave("removeFromFavorites", Undefined)

\* clearSession()
ClearSession ==
    /\ sessionCalls < MaxSessionCalls
    /\ sessionCalls' = sessionCalls + 1
    /\ sessionOp' = "clearSession"
    /\ currentSession' = createNewSession
    /\ storage' = NoItem
    /\ setItems' = <<>>
    /\ returned' = Undefined
    /\ sessionThrew' = FALSE
    /\ UNCHANGED <<clock, nextId>>
    /\ UNCHANGED <<avars, rvars, gvars, vvars>>

\* ---------------------------------------------------------- VoiceRecorder
\* null, for this.mediaRecorder and this.stream.
NoRecorder == 0

\* No startRecording call awaits getUserMedia.
NoStart == [awaiting |-> FALSE, maxDuration |-> 0]

\* No stopRecording promise was settled or created.
NoStop == [status |-> "none", rec |-> NoRecorder, by |-> "none"]

\* Averages of getByteFrequencyData the sampler reads.
Volumes == {0, 20, 120}

\* options.maxDuration in seconds; 0 stands for the option left out.
MaxDurations == {0, 2}

\* Math.round of n / d for n >= 0, d > 0.
RoundDiv(n, d) == (2 * n + d) \div (2 * d)

\* Math.max(...data) of a non-empty list.
MaxOf(data) == CHOOSE m \in {data[i] : i \in 1..Len(data)} : \A i \in 1..Len(data) : data[i] <= m

\* n^3 times the variance of data, n its length: calculateVariance is
\* sum((v - mean)^2) / n with mean = sum / n.
VarianceTimesCube(data) ==
    LET n == Len(data)
        sum == SumSeq(data)
    IN  SumSeq([i \in 1..n |-> (n * data[i] - sum) * (n * data[i] - sum)])

\* determineEmotionalTone(avg, peak, variance) on avg = sum / n and
\* variance = VarianceTimesCube(data) / n^3.
determineEmotionalTone(data) ==
    LET n == Len(data)
        sum == SumSeq(data)
        peak == MaxOf(data)
        vc == VarianceTimesCube(data)
        cube == n * n * n
        intense == IF sum = 0 THEN peak > 2 ELSE peak * n > 2 * sum
    IN  IF vc > 500 * cube /\ intense THEN "excited"
        ELSE IF vc > 300 * cube /\ sum > 50 * n THEN "stressed"
        ELSE IF vc < 100 * cube /\ sum < 30 * n THEN "calm"
        ELSE "neutral"

\* analyzeVoiceData(duration): the fields duration, averageVolume,
\* peakVolume and emotionalTone of the VoiceAnalysis (silencePeriods and
\* speechRate, which the empty list makes [] and 0, are left out).
analyzeVoiceData(data, duration) ==
    IF Len(data) = 0
    THEN [duration |-> duration, averageVolume |-> 0, peakVolume |-> 0,
          emotionalTone |-> "neutral"]
    ELSE [duration |-> duration,
          averageVolume |-> RoundDiv(SumSeq(data), Len(data)),
          peakVolume |-> MaxOf(data),
          emotionalTone |-> determineEmotionalTone(data)]

\* The closure `analyze` of startVolumeAnalysis, run k times in a row with
\* the reading v: it samples and requests the next frame only while
\* isRecording and the analyser are set.
analyze(recording, hasAnalyser, data, v, k) ==
    IF recording /\ hasAnalyser
    THEN [volumeData |-> data \o [i \in 1..k |-> v], requested |-> k]
    ELSE [volumeData |-> data, requested |-> 0]

\* new VoiceRecorder().
NewVoiceRecorder ==
    /\ mediaRecorder = NoRecorder
    /\ stream = NoRecorder
    /\ audioContext = FALSE
    /\ analyser = FALSE
    /\ isRecording = FALSE
    /\ recordingStart = 0
    /\ volumeData = <<>>
    /\ starting = NoStart
    /\ timers = {}
    /\ onstops = {}
    /\ samplers = 0
    /\ voiceNow = 0
    /\ frames = 0
    /\ recordings = <<>>
    /\ stopResult = NoStop
    /\ voiceOp = "new"

\* No VoiceRecorder is part of the other components' behaviours.
VoiceUnused == NewVoiceRecorder

\* startRecording(options) up to its await of getUserMedia.
StartRecordingCall(maxDuration) ==
    /\ ~starting.awaiting
    /\ Len(recordings) + 1 <= MaxRecordings
    /\ starting' = [awaiting |-> TRUE, maxDuration |-> maxDuration]
    /\ voiceOp' = "startRecording"
    /\ UNCHANGED <<mediaRecorder, stream, audioContext, analyser, isRecording,
                   recordingStart, volumeData, timers, onstops, samplers, voiceNow,
                   frames, recordings, stopResult>>
    /\ UNCHANGED <<avars, rvars, gvars, svars>>

\* The rest of startRecording, once getUserMedia settled: granted or not.
\* v is what the analyser reads should `analyze` sample at once.
StartRecordingResume(granted, v) ==
    LET id == Len(recordings) + 1
        an == analyze(isRecording, TRUE, volumeData, v, 1)
    IN  /\ starting.awaiting
        /\ starting' = NoStart
        /\ IF granted
           THEN /\ stream' = id
                /\ audioContext' = TRUE
                /\ analyser' = TRUE
                /\ volumeData' = an.volumeData
                /\ samplers' = samplers + an.requested
                /\ mediaRecorder' = id
                /\ recordingStart' = voiceNow
                /\ isRecording' = TRUE
                /\ timers' = IF starting.maxDuration # 0
                             THEN timers \cup {[rec |-> id, due |-> voiceNow + starting.maxDuration]}
                             ELSE timers
                /\ recordings' = Append(recordings,
                       [startedAt |-> voiceNow, maxDuration |-> starting.maxDuration,
                        afterStop |-> ~isRecording, frames |-> 0,
                        stoppedBy |-> "none", timerOf |-> NoRecorder, stoppedAt |-> 0])
                /\ voiceOp' = "started"
           ELSE /\ voiceOp' = "startFailed"
                /\ UNCHANGED <<mediaRecorder, stream, audioContext, analyser, isRecording,
                               recordingStart, volumeData, timers, samplers, recordings>>
        /\ UNCHANGED <<onstops, voiceNow, frames, stopResult>>
        /\ UNCHANGED <<avars, rvars, gvars, svars>>

\* The executor of stopRecording's promise, called by `by` ("caller", or
\* "timer" for the timeout of recording timerOf).
stopRecording(by, timerOf) ==
    IF mediaRecorder = NoRecorder \/ ~isRecording
    THEN /\ stopResult' = [status |-> "rejected", rec |-> mediaRecorder, by |-> by,
                           wasRecording |-> isRecording]
         /\ UNCHANGED <<isRecording, onstops, recordings>>
    ELSE /\ onstops' = onstops \cup {mediaRecorder}
         /\ isRecording' = FALSE
         /\ recordings' = [recordings EXCEPT ![mediaRecorder] =
                               [@ EXCEPT !.stoppedBy = by, !.timerOf = timerOf,
                                         !.stoppedAt = voiceNow]]
         /\ stopResult' = [status |-> "pending", rec |-> mediaRecorder, by |-> by,
                           wasRecording |-> TRUE]

\* stopRecording() called by the application.
StopRecordingCall ==
    /\ stopRecording("caller", NoRecorder)
    /\ voiceOp' = "stopRecording"
    /\ UNCHANGED <<mediaRecorder, stream, audioContext, analyser, recordingStart,
                   volumeData, starting, timers, samplers, voiceNow, frames>>
    /\ UNCHANGED <<avars, rvars, gvars, svars>>

\* The stop event of recorder r: the onstop handler analyses, cleans up and
\* resolves the promise.
OnStop(r) ==
    /\ r \in onstops
    /\ onstops' = onstops \ {r}
    /\ stopResult' = [status |-> "resolved", rec |-> r, by |-> recordings[r].stoppedBy,
                      wasRecording |-> TRUE,
                      analysis |-> analyzeVoiceData(volumeData,
                                                    (voiceNow - recordingStart) * 1000)]
    /\ stream' = NoRecorder
    /\ audioContext' = FALSE
    /\ analyser' = FALSE
    /\ mediaRecorder' = NoRecorder
    /\ volumeData' = <<>>
    /\ voiceOp' = "onstop"
    /\ UNCHANGED <<isRecording, recordingStart, starting, timers, samplers, voiceNow,
                   frames, recordings>>
    /\ UNCHANGED <<avars, rvars, gvars, svars>>

\* The timeout set by the startRecording of recording t.rec fires.
TimerFire(t) ==
    /\ t \in timers
    /\ t.due <= voiceNow
    /\ timers' = timers \ {t}
    /\ IF isRecording
       THEN stopRecording("timer", t.rec)
       ELSE UNCHANGED <<isRecording, onstops, recordings, stopResult>>
    /\ voiceOp' = "timer"
    /\ UNCHANGED <<mediaRecorder, stream, audioContext, analyser, recordingStart,
                   volumeData, starting, samplers, voiceNow, frames>>
    /\ UNCHANGED <<avars, rvars, gvars, svars>>

\* The browser runs an animation frame: every pending `analyze` runs, and
\* the frame counts for the recordings that were started and not stopped.
VoiceFrame(v) ==
    LET an == analyze(isRecording, analyser, volumeData, v, samplers)
    IN  /\ frames < MaxFrames
        /\ frames' = frames + 1
        /\ volumeData' = an.volumeData
        /\ samplers' = an.requested
        /\ recordings' = [i \in 1..Len(recordings) |->
                             IF recordings[i].stoppedBy = "none"
                             THEN [recordings[i] EXCEPT !.frames = @ + 1]
                             ELSE recordings[i]]
        /\ voiceOp' = "frame"
        /\ UNCHANGED <<mediaRecorder, stream, audioContext, analyser, isRecording,
                       recordingStart, starting, timers, onstops, voiceNow, stopResult>>
        /\ UNCHANGED <<avars, rvars, gvars, svars>>

\* A second passes; a timeout that is due fires before the clock moves on.
VoiceAdvance ==
    /\ voiceNow < MaxVoiceTime
    /\ \A t \in timers : t.due > voiceNow
    /\ voiceNow' = voiceNow + 1
    /\ voiceOp' = "advance"
    /\ UNCHANGED <<mediaRecorder, stream, audioContext, analyser, isRecording,
                   recordingStart, volumeData, starting, timers, onstops, samplers,
                   frames, recordings, stopResult>>
    /\ UNCHANGED <<avars, rvars, gvars, svars>>

\* generateGlyphData is not called on its own.
GlyphDataUnused ==
    /\ metrics = [cognitive |-> RInt(0), emotional |-> 0]
    /\ glyphData = NoResult
    /\ firstShape = ""
    /\ glyphCalls = 0

\* No analyzer call is part of the renderer's behaviours.
AnalyzerUnused ==
    /\ provider = 1
    /\ text = [type |-> "string", chars |-> <<>>]
    /\ apc = "idle"
    /\ ncalls = 0
    /\ result = NoResult
    /\ first = NoResult

Init ==
    /\ \E sz \in Sizes : NewRenderer(sz)
    /\ NewHost
    /\ rng = 0
    /\ AnalyzerUnused
    /\ GlyphDataUnused
    /\ SessionUnused
    /\ VoiceUnused

Next ==
    \/ \E a \in RenderAnalyses, o \in RenderOptions : RenderCall(a, o, MaxCalls)
    \/ StopCall(MaxCalls)
    \/ \E cb \in pending : Tick(cb, MaxTicks * FrameMs)

Spec == Init /\ [][Next]_vars

\* Starts and stops: up to MaxStopCalls calls with at most one frame run
\* among them, so that stop follows stop after a start.
NextStop ==
    \/ \E a \in RenderAnalyses, o \in RenderOptions : RenderCall(a, o, MaxStopCalls)
    \/ StopCall(MaxStopCalls)
    \/ \E cb \in pending : Tick(cb, FrameMs)

SpecStop == Init /\ [][NextStop]_vars

\* One long animation run: a new renderer is started once, with any seed of
\* the generator, frames run, and the caller may stop it.
InitRun ==
    /\ NewRenderer(<<120, 120>>)
    /\ NewHost
    /\ rng \in 0..(RngMod - 1)
    /\ AnalyzerUnused
    /\ GlyphDataUnused
    /\ SessionUnused
    /\ VoiceUnused

RunStart(a, o) ==
    /\ lastOp = "new"
    /\ o.animate
    /\ RenderCall(a, o, 1)

RunStop ==
    /\ pending # {}
    /\ StopCall(2)

NextRun ==
    \/ \E a \in RenderAnalyses, o \in RenderOptions : RunStart(a, o)
    \/ RunStop
    \/ \E cb \in pending : Tick(cb, MaxRunTicks * FrameMs)

SpecRun == InitRun /\ [][NextRun]_vars

\* new GlyphRenderer(canvas) on a canvas whose getContext('2d') returns null:
\* the constructor throws and the caller holds no renderer.
FailedRenderer(sz) ==
    /\ canvas = [width |-> sz[1], height |-> sz[2]]
    /\ animationId = NullId
    /\ startTime = 0
    /\ particles = <<>>
    /\ resonanceField = GlyphRendererNew(sz, FALSE).resonanceField
    /\ getContextCalls = GlyphRendererNew(sz, FALSE).getContextCalls
    /\ calls = 0
    /\ lastOp = "new"
    /\ threw = GlyphRendererNew(sz, FALSE).threw
    /\ drew = <<>>
    /\ stopped = FALSE
    /\ respawns = {}
    /\ run = NoRun

\* The caller holds a renderer: the constructor returned.
HasRenderer == ~(lastOp = "new" /\ threw)

\* Construction on a canvas with or without a 2D context, then the calls a
\* caller that holds the renderer can make.
InitNew ==
    /\ \E sz \in Sizes : NewRenderer(sz) \/ FailedRenderer(sz)
    /\ NewHost
    /\ rng = 0
    /\ AnalyzerUnused
    /\ GlyphDataUnused
    /\ SessionUnused
    /\ VoiceUnused

NextNew ==
    \/ \E a \in RenderAnalyses, o \in RenderOptions : HasRenderer /\ RenderCall(a, o, MaxCalls)
    \/ HasRenderer /\ StopCall(MaxCalls)
    \/ \E cb \in pending : HasRenderer /\ Tick(cb, MaxTicks * FrameMs)

SpecNew == InitNew /\ [][NextNew]_vars

\* -------------------------------------------------------- analyzer actions
InitAnalyzer ==
    /\ provider \in 1..Len(AI_PROVIDERS)
    /\ text \in Inputs
    /\ apc = "idle"
    /\ ncalls = 0
    /\ result = NoResult
    /\ first = NoResult
    /\ NewRenderer(<<120, 120>>)
    /\ NewHost
    /\ rng = 0
    /\ GlyphDataUnused
    /\ SessionUnused
    /\ VoiceUnused

\* await analyzer.analyzeText(text)
AnalyzeText ==
    /\ ncalls < MaxAnalyzeCalls
    /\ result' = analyzeText(provider, text)
    /\ first' = IF ncalls = 0 THEN [by |-> provider, value |-> result'] ELSE first
    /\ ncalls' = ncalls + 1
    /\ apc' = "returned"
    /\ UNCHANGED <<provider, text>>
    /\ UNCHANGED <<rvars, gvars, svars, vvars>>

\* new GlyphAnalyzer(p): the caller goes on with an analyzer of another provider.
NewAnalyzer(p) ==
    /\ p # provider
    /\ provider' = p
    /\ UNCHANGED <<text, apc, ncalls, result, first>>
    /\ UNCHANGED <<rvars, gvars, svars, vvars>>

NextAnalyzer ==
    \/ AnalyzeText
    \/ \E p \in 1..Len(AI_PROVIDERS) : NewAnalyzer(p)

SpecAnalyzer == InitAnalyzer /\ [][NextAnalyzer]_vars

\* --------------------------------------------------- SessionManager alone
InitSession ==
    /\ NewSessionManager
    /\ VoiceUnused
    /\ NewRenderer(<<120, 120>>)
    /\ NewHost
    /\ rng = 0
    /\ AnalyzerUnused
    /\ GlyphDataUnused

NextSession ==
    \/ \E a \in RenderAnalyses, t \in clock..(clock + 1), o \in SaveOutcomes : AddEntry(a, t, o)
    \/ \E v \in BOOLEAN, o \in SaveOutcomes : UpdatePreferences(v, o)
    \/ \E imported \in ImportSessions, o \in SaveOutcomes : ImportSession(imported, o)
    \/ \E id \in EntryIds, u \in EntryUpdates, o \in SaveOutcomes : UpdateEntry(id, u, o)
    \/ \E id \in EntryIds, o \in SaveOutcomes : DeleteEntry(id, o)
    \/ \E g \in GlyphSnapshots, o \in SaveOutcomes : AddToFavorites(g, o)
    \/ \E g \in GlyphSnapshots, o \in SaveOutcomes : RemoveFromFavorites(g, o)
    \/ ClearSession

SpecSession == InitSession /\ [][NextSession]_vars

\* ---------------------------------------------------- VoiceRecorder alone
InitVoice ==
    /\ NewVoiceRecorder
    /\ NewSessionManager
    /\ NewRenderer(<<120, 120>>)
    /\ NewHost
    /\ rng = 0
    /\ AnalyzerUnused
    /\ GlyphDataUnused

NextVoice ==
    \/ \E d \in MaxDurations : StartRecordingCall(d)
    \/ \E granted \in BOOLEAN, v \in Volumes : StartRecordingResume(granted, v)
    \/ StopRecordingCall
    \/ \E r \in onstops : OnStop(r)
    \/ \E t \in timers : TimerFire(t)
    \/ \E v \in Volumes : VoiceFrame(v)
    \/ VoiceAdvance

SpecVoice == InitVoice /\ [][NextVoice]_vars

\* ------------------------------------------------ generateGlyphData alone
\* Symbolic densities the calls are made with.
SymbolicInputs == {0, 100}

InitGlyphData ==
    /\ metrics \in [cognitive : {Rat(n, MetricDenominator) : n \in 0..(100 * MetricDenominator)},
                    emotional : 0..100]
    /\ glyphData = NoResult
    /\ firstShape = ""
    /\ glyphCalls = 0
    /\ provider = 1
    /\ text = [type |-> "string", chars |-> <<>>]
    /\ apc = "idle"
    /\ ncalls = 0
    /\ result = NoResult
    /\ first = NoResult
    /\ NewRenderer(<<120, 120>>)
    /\ NewHost
    /\ rng = 0
    /\ SessionUnused
    /\ VoiceUnused

\* this.generateGlyphData(cognitive, emotional, symbolic)
GenerateGlyphData(symbolic) ==
    /\ glyphCalls < MaxGlyphCalls
    /\ glyphData' = generateGlyphData(metrics.cognitive, metrics.emotional, symbolic)
    /\ firstShape' = IF glyphCalls = 0 THEN glyphData'.shape ELSE firstShape
    /\ glyphCalls' = glyphCalls + 1
    /\ UNCHANGED metrics
    /\ UNCHANGED <<avars, rvars, svars, vvars>>

NextGlyphData == \E symbolic \in SymbolicInputs : GenerateGlyphData(symbolic)

SpecGlyphData == InitGlyphData /\ [][NextGlyphData]_vars

\* ------------------------------------------------------- analyzer claims
InRange100(x) == RLe(RInt(0), x) /\ RLe(x, RInt(100))

\* C3: every analyzeText result, for every input text (the empty string
\* included), has cognitiveLoad, emotionalIntensity, symbolicDensity and
\* temporalFlow within [0,100] and glyphData.frequency >= 0.5.
C3_MetricsInRange ==
    apc = "returned" =>
        /\ InRange100(result.cognitiveLoad)
        /\ result.emotionalIntensity \in 0..100
        /\ result.symbolicDensity \in 0..100
        /\ result.temporalFlow \in 0..100
        /\ RLe(Rat(1, 2), result.glyphData.frequency)

\* A text whose unclamped cognitive load exceeds 100 was analyzed.
C3_Witness ==
    /\ apc = "returned"
    /\ text.type = "string"
    /\ RLt(RInt(100), calculateCognitiveLoad_Unclamped(text.chars))
    /\ result.cognitiveLoad = RInt(100)

\* C4: the emergencePoints of every analyzeText result are in ascending
\* order and every one of them lies in [0,100].
C4_EmergenceAscending ==
    apc = "returned" =>
        LET ep == result.emergencePoints
        IN  /\ \A i \in 1..Len(ep) : InRange100(ep[i])
            /\ \A i \in 1..(Len(ep) - 1) : RLe(ep[i], ep[i + 1])

\* A text with two or more emergent sentences was analyzed.
C4_Witness ==
    /\ apc = "returned"
    /\ text.type = "string"
    /\ Len(result.emergencePoints) >= 2

EmptyString == [type |-> "string", chars |-> <<>>]

\* C5 as claimed: analyzeText of the empty string returns the default vector
\* of getDefaultAnalysis.
C5_EmptyGivesDefault ==
    (apc = "returned" /\ text = EmptyString) => result = getDefaultAnalysis

\* C5 as amended: analyzeText of the empty string returns the vector its
\* formulas compute for it: cognitiveLoad 1, the other three metrics 0, no
\* emergence point, The Seeker / neutral / existence as signature, a circle
\* of frequency 0.5, color hsl(1, 50%, 70%) and complexity 0.
C5_EmptyGivesComputed ==
    (apc = "returned" /\ text = EmptyString) =>
        result =
            [cognitiveLoad |-> RInt(1),
             emotionalIntensity |-> 0,
             symbolicDensity |-> 0,
             temporalFlow |-> 0,
             emergencePoints |-> <<>>,
             meaningSignature |->
                "The Seeker resonance with neutral undertones, exploring themes of existence",
             glyphData |-> [shape |-> "circle",
                            frequency |-> Rat(1, 2),
                            color |-> [fmt |-> "hsl", hue |-> 1, saturation |-> 50,
                                       lightness |-> RInt(70)],
                            complexity |-> 0]]

\* The empty string was analyzed.
C5_Witness == apc = "returned" /\ text = EmptyString /\ result # NoResult

C7_FailureGivesDefault ==
    (apc = "returned" /\ analyzeTextTry(text).threw) =>
        /\ result # Rejected
        /\ result = getDefaultAnalysis

\* analyzeText was called with null, whose split throws, and returned.
C7_Witness ==
    /\ apc = "returned"
    /\ text.type = "null"
    /\ analyzeTextTry(text).threw

\* ------------------------------------------------------- renderer claims
Drew(layer) == \E k \in 1..Len(drew) : drew[k] = layer

\* C1: after any sequence of animated and static render calls, stopAnimation
\* calls and frames, at most one frame callback is pending.
C1_OnePending == Cardinality(pending) <= 1

\* render(animate) was called twice in a row, no stop and no frame between.
C1_Witness ==
    /\ calls = 2
    /\ now = 0
    /\ nextHandle = 3
    /\ lastOp = "render"
    /\ Cardinality(pending) = 1

\* C2: once stopAnimation was called while a frame callback was pending, no
\* frame runs until the next animated render.
C2_NoFrameAfterStop == stopped => lastOp # "tick"

\* stopAnimation was called on an animation that had drawn a frame.
C2_Witness ==
    /\ stopped
    /\ lastOp = "stop"
    /\ now > 0
    /\ run # NoRun

\* C8: from the animated render on, through every frame of the run (the
\* frames that respawn particles included), the particle collection holds
\* floor(symbolicDensity / 10) + 10 particles.
C8_ParticleCount ==
    run # NoRun => Len(particles) = (run.analysis.symbolicDensity \div 10) + 10

\* A frame of the run respawned a particle.
C8_Witness ==
    /\ run # NoRun
    /\ lastOp = "tick"
    /\ respawns # {}
    /\ Len(particles) > 0

\* C9: after every frame each particle has 0 < life <= maxLife, and a
\* particle the frame respawned has life = maxLife.
C9_LifeWithinBounds ==
    \A i \in 1..Len(particles) :
        /\ RLt(RInt(0), particles[i].life)
        /\ RLe(particles[i].life, particles[i].maxLife)
        /\ (i \in respawns => particles[i].life = particles[i].maxLife)

\* A frame respawned a particle whose life passed below zero without being zero.
C9_Witness ==
    /\ lastOp = "tick"
    /\ \E i \in respawns : particles[i].maxLife[2] # 1

\* C10: the scalar field grid always has ceil(height / 20) rows of
\* ceil(width / 20) cells for the canvas size the latest render set, also at
\* the field update of the next frame; straight after a render every cell is
\* zero and the render has not thrown.
C10_FieldMatchesCanvas ==
    /\ Len(resonanceField.field) = (canvas.height + 19) \div 20
    /\ \A i \in 1..Len(resonanceField.field) :
          Len(resonanceField.field[i]) = (canvas.width + 19) \div 20
    /\ lastOp = "render" =>
          /\ ~threw
          /\ resonanceField.width = canvas.width
          /\ resonanceField.height = canvas.height
          /\ \A i \in 1..Len(resonanceField.field) :
                \A j \in 1..Len(resonanceField.field[i]) : resonanceField.field[i][j] = 0

\* A frame updated the field after a render had changed the canvas size
\* during the animation.
C10_Witness ==
    /\ lastOp = "tick"
    /\ Drew("field")
    /\ run # NoRun
    /\ canvas.width # run.options.width
    /\ \E i \in 1..Len(resonanceField.field) :
          \E j \in 1..Len(resonanceField.field[i]) : resonanceField.field[i][j] # 0

\* C11: a frame whose drawing throws is a no-op frame that keeps the loop
\* alive: after it a next frame callback is pending.
C11_ThrowKeepsLoopAlive ==
    (lastOp = "tick" /\ threw) => Cardinality(pending) = 1

\* C12: a particle a frame respawned lies within the current surface:
\* 0 <= x <= canvas.width and 0 <= y <= canvas.height.
C12_RespawnWithinSurface ==
    \A i \in respawns :
        /\ RLe(RInt(0), particles[i].x)
        /\ RLe(particles[i].x, RInt(canvas.width))
        /\ RLe(RInt(0), particles[i].y)
        /\ RLe(particles[i].y, RInt(canvas.height))

\* ------------------------------------------------------------- hexToRgba
\* A channel parseInt returns: a number, or NaN.
NaN == [nan |-> TRUE, v |-> 0]
Num(n) == [nan |-> FALSE, v |-> n]

HexDigitChars ==
    <<"0", "1", "2", "3", "4", "5", "6", "7", "8", "9", "a", "b", "c", "d", "e", "f">>

\* Value of a hexadecimal digit, either case; -1 for any other character.
HexValue(c) ==
    LET l == IF c \in UpperLetters THEN UpperToLower[c] ELSE c
    IN  IF \E k \in 1..Len(HexDigitChars) : HexDigitChars[k] = l
        THEN (CHOOSE k \in 1..Len(HexDigitChars) : HexDigitChars[k] = l) - 1
        ELSE -1

\* String.slice(from, to) with 0 <= from <= to, on a sequence of characters.
Slice(chars, from, to) ==
    SubSeq(chars, from + 1, IF to < Len(chars) THEN to ELSE Len(chars))

\* parseInt(chars, 16) for a slice without sign or 0x prefix: leading white
\* space is skipped, the longest run of hex digits is the value, and no
\* digit at all is NaN.
RECURSIVE parseIntHexFrom(_, _, _)
parseIntHexFrom(chars, i, acc) ==
    IF i > Len(chars) \/ HexValue(chars[i]) < 0 THEN acc
    ELSE parseIntHexFrom(chars, i + 1, acc * 16 + HexValue(chars[i]))

parseInt16(chars) ==
    LET start == NextNotIn(chars, 1, SpaceChars)
    IN  IF start > Len(chars) \/ HexValue(chars[start]) < 0 THEN NaN
        ELSE Num(parseIntHexFrom(chars, start, 0))

\* Decimal digits of a natural number, as a template literal prints it.
RECURSIVE DecimalChars(_)
DecimalChars(n) ==
    IF n < 10 THEN <<HexDigitChars[n + 1]>>
    ELSE DecimalChars(n \div 10) \o <<HexDigitChars[(n % 10) + 1]>>

\* The characters of the default color '#8b5cf6'.
DefaultColorChars == <<"#", "8", "b", "5", "c", "f", "6">>

\* The characters of a color string up to the end of its first number:
\* '#8b5cf6' whole, `hsl(${hue}, ` of an hsl string (at least 7 characters,
\* and hexToRgba reads none beyond the seventh).
ColorChars(color) ==
    IF color.fmt = "hex" THEN DefaultColorChars
    ELSE <<"h", "s", "l", "(">> \o DecimalChars(color.hue) \o <<",", " ">>

\* hexToRgba(hex, alpha) of GlyphRenderer and of Particle: the channels of
\* the rgba(...) string it returns.
hexToRgba(hex, alpha) ==
    [r |-> parseInt16(Slice(hex, 1, 3)),
     g |-> parseInt16(Slice(hex, 3, 5)),
     b |-> parseInt16(Slice(hex, 5, 7)),
     alpha |-> alpha]

\* A well-formed #rrggbb string.
WellFormedHex(chars) ==
    /\ Len(chars) = 7
    /\ chars[1] = "#"
    /\ \A k \in 2..7 : HexValue(chars[k]) >= 0

\* renderMainGlyph: the color it assigns to ctx.strokeStyle.
GlyphOpacity(analysis) == RAdd(Rat(7, 10), Rat(analysis.emotionalIntensity * 3, 1000))
GlyphStroke(analysis) ==
    hexToRgba(ColorChars(analysis.glyphData.color), GlyphOpacity(analysis))

IsColor(c) == ~c.r.nan /\ ~c.g.nan /\ ~c.b.nan

\* C13: a frame that draws the glyph with a color string that is not a
\* well-formed #rrggbb value uses a fixed neutral fallback: the channels
\* are numbers, and they are the same for every malformed string the caller
\* can pass.
C13_MalformedColorFallsBack ==
    (/\ lastOp = "tick"
     /\ Drew("glyph")
     /\ ~WellFormedHex(ColorChars(run.analysis.glyphData.color)))
    => /\ IsColor(GlyphStroke(run.analysis))
       /\ \A a \in RenderAnalyses :
             ~WellFormedHex(ColorChars(a.glyphData.color)) =>
                 /\ GlyphStroke(a).r = GlyphStroke(run.analysis).r
                 /\ GlyphStroke(a).g = GlyphStroke(run.analysis).g
                 /\ GlyphStroke(a).b = GlyphStroke(run.analysis).b

\* C14: when the 2D context cannot be acquired the constructor throws after
\* one getContext call, and no renderer comes into existence: no scalar
\* field, no scheduled callback, and no call the caller can make on it.
C14_NoContextNoRenderer ==
    (lastOp = "new" /\ threw) =>
        /\ getContextCalls = 1
        /\ resonanceField = NoField
        /\ pending = {}
        /\ animationId = NullId
        /\ ~ENABLED NextNew

\* Construction on a canvas without a 2D context.
C14_Witness ==
    /\ lastOp = "new"
    /\ threw
    /\ getContextCalls >= 1
    /\ calls = 0

\* C15: the shape generateGlyphData returns is the entry at index
\* floor((cognitive + emotional) / 33) mod 6 of circle, triangle, square,
\* hexagon, star, spiral, for every pair of metrics in [0,100]; a sum of 198
\* or more gives circle; the symbolic density has no part in it, and a
\* repeated call returns the shape of the first one.
C15_ShapeByIndex ==
    glyphCalls > 0 =>
        LET sum == RAdd(metrics.cognitive, RInt(metrics.emotional))
            index == (sum[1] \div (33 * sum[2])) % 6
        IN  /\ glyphData.shape =
                   <<"circle", "triangle", "square", "hexagon", "star", "spiral">>[index + 1]
            /\ RLe(RInt(198), sum) => glyphData.shape = "circle"
            /\ glyphData.shape = firstShape

\* A second call on metrics whose sum is at least 198, with another
\* symbolic density than the first.
C15_Witness ==
    /\ glyphCalls = 2
    /\ RLe(RInt(198), RAdd(metrics.cognitive, RInt(metrics.emotional)))
    /\ metrics.cognitive[2] # 1
    /\ glyphData.complexity > 5

\* C16: stopAnimation never fails and always ends Idle (animationId null, no
\* callback pending); called while Idle, and so also right after another
\* stopAnimation, it changes nothing of the renderer or the host.
C16_StopIdempotent ==
    [][lastOp' = "stop" =>
          /\ ~threw'
          /\ animationId' = NullId
          /\ pending' = {}
          /\ (animationId = NullId \/ lastOp = "stop") =>
                UNCHANGED <<animationId, pending, canvas, startTime, particles,
                            resonanceField, nextHandle, run>>]_vars

\* stopAnimation called twice in a row on an animation that had run a frame.
C16_Witness ==
    /\ calls = 3
    /\ lastOp = "stop"
    /\ stopped
    /\ now > 0
    /\ animationId = NullId
    /\ pending = {}

\* C17: when a setItem of an addEntry call failed (by any exception, also
\* quota exceeded at the retry after the cleanup), addEntry throws nothing,
\* returns the new entry, and the entry is in the in-memory session.
C17_AddEntrySurvivesStorageFailure ==
    (/\ sessionOp = "addEntry"
     /\ \E k \in 1..Len(setItems) : setItems[k] # "stored")
    => /\ ~sessionThrew
       /\ returned.id = nextId - 1
       /\ \E i \in 1..Len(currentSession.entries) : currentSession.entries[i] = returned

\* C18: every animated render, also one made while an animation runs,
\* leaves exactly its own first frame callback pending (the previous one is
\* cancelled), the clock origin at the time of the call, and a particle
\* collection made anew for its analysis; and every later frame computes
\* the field for the time elapsed since the latest such render.
C18_RestartFromScratch ==
    [][/\ (lastOp' = "render" /\ nextHandle' = nextHandle + 1) =>
             /\ pending' = {[id |-> nextHandle, analysis |-> run'.analysis,
                             options |-> run'.options]}
             /\ animationId' = nextHandle
             /\ startTime' = now
             /\ Len(particles') = (run'.analysis.symbolicDensity \div 10) + 10
             /\ \A i \in 1..Len(particles') :
                   /\ particles'[i].life = particles'[i].maxLife
                   /\ particles'[i].color = run'.analysis.glyphData.color
       /\ (lastOp' = "tick" /\ \E k \in 1..Len(drew') : drew'[k] = "field") =>
             resonanceField' = update(resonanceField, run.analysis, now' - run.at)]_vars

\* An animation restarted after its first frame has run a frame of its own
\* that drew the field and particles aged by the restarted run only.
C18_Witness ==
    /\ calls = 2
    /\ lastOp = "tick"
    /\ run # NoRun
    /\ run.at = FrameMs
    /\ now = 2 * FrameMs
    /\ Drew("field")
    /\ Drew("particles")
    /\ \A i \in 1..Len(particles) :
          particles[i].life = RSub(particles[i].maxLife, RInt(1))

\* C19: the layers a frame draws come in the order fade, field, glyph,
\* particles, markers, rings, each at most once, and a frame that left a
\* next callback pending has drawn them all: the field and the particles
\* when the options ask for them, the other four always.
C19_LayerOrder ==
    lastOp = "tick" =>
        LET order == <<"fade", "field", "glyph", "particles", "markers", "rings">>
            place(layer) == CHOOSE k \in 1..Len(order) : order[k] = layer
        IN  /\ \A k \in 1..Len(drew) : \E j \in 1..Len(order) : order[j] = drew[k]
            /\ \A k \in 1..(Len(drew) - 1) : place(drew[k]) < place(drew[k + 1])
            /\ pending # {} =>
                  /\ ~threw
                  /\ \A j \in 1..Len(order) :
                        Drew(order[j]) <=>
                            \/ order[j] \in {"fade", "glyph", "markers", "rings"}
                            \/ order[j] = "field" /\ run.options.showResonanceField
                            \/ order[j] = "particles" /\ run.options.showParticles

\* A frame drew all six layers and requested the next frame.
C19_Witness ==
    /\ lastOp = "tick"
    /\ drew = <<"fade", "field", "glyph", "particles", "markers", "rings">>
    /\ pending # {}
    /\ ~threw

\* C20: a render with animate = false clears the surface and draws the main
\* glyph and the emergence markers, and nothing else; it requests and
\* cancels no frame, leaves the particles, the generator and the clock
\* origin as they are, and leaves every cell of the field at zero.
C20_StaticRenderOneShot ==
    [][(lastOp' = "render" /\ nextHandle' = nextHandle) =>
          /\ drew' = <<"clear", "glyph", "markers">>
          /\ ~threw'
          /\ UNCHANGED <<pending, animationId, nextHandle, particles, rng, startTime, now>>
          /\ \A i \in 1..Len(resonanceField'.field) :
                \A j \in 1..Len(resonanceField'.field[i]) :
                    resonanceField'.field[i][j] = 0]_vars

\* A static render made while an animation runs that has drawn a frame
\* with particles.
C20_Witness ==
    /\ lastOp = "render"
    /\ drew = <<"clear", "glyph", "markers">>
    /\ pending # {}
    /\ now > 0
    /\ particles # <<>>
    /\ canvas.height > 0

\* C21: a frame of an animation with showParticles = false changes no
\* particle and draws none, a frame with showResonanceField = false changes
\* no field cell and draws no field, and a frame that ends without an
\* exception has drawn the glyph, the markers and the rings whatever the two
\* options are.
C21_ConditionalLayers ==
    [][lastOp' = "tick" =>
          /\ ~run.options.showParticles =>
                /\ particles' = particles
                /\ rng' = rng
                /\ respawns' = {}
                /\ \A k \in 1..Len(drew') : drew'[k] # "particles"
          /\ ~run.options.showResonanceField =>
                /\ resonanceField' = resonanceField
                /\ \A k \in 1..Len(drew') : drew'[k] # "field"
          /\ ~threw' =>
                \A layer \in {"glyph", "markers", "rings"} :
                    \E k \in 1..Len(drew') : drew'[k] = layer]_vars

\* A frame of an animation started with both options off, on a canvas that
\* holds particles and a grid.
C21_Witness ==
    /\ lastOp = "tick"
    /\ run # NoRun
    /\ ~run.options.showParticles
    /\ ~run.options.showResonanceField
    /\ drew = <<"fade", "glyph", "markers", "rings">>
    /\ particles # <<>>
    /\ resonanceField.field # <<>>

\* C22: the field layer of a frame paints a rectangle for every cell of the
\* grid, in every row and every column, whose opacity exceeds 0.05, and for
\* no other cell.
C22_EveryVisibleCellPainted ==
    (lastOp = "tick" /\ Drew("field")) =>
        FieldRender(resonanceField) =
            {<<i, j>> \in (0..(Len(resonanceField.field) - 1))
                          \X (0..(Len(resonanceField.field[1]) - 1)) :
                Visible(resonanceField.field[i + 1][j + 1])}

\* C23: a render with animate = false leaves animationId, the pending
\* callbacks, the handle counter and the run as they are, and every frame
\* that runs, also one after a static render, is the callback animationId
\* names, bound to the analysis and options of the latest animated render.
C23_StaticKeepsLoop ==
    [][/\ (lastOp' = "render" /\ nextHandle' = nextHandle) =>
             UNCHANGED <<animationId, pending, run, stopped, startTime>>
       /\ lastOp' = "tick" =>
             pending = {[id |-> animationId, analysis |-> run.analysis,
                         options |-> run.options]}]_vars

\* A frame ran and requested its successor after a static render had
\* changed the canvas size under the running animation.
C23_Witness ==
    /\ lastOp = "tick"
    /\ ~threw
    /\ calls = 2
    /\ run # NoRun
    /\ canvas.width # run.options.width
    /\ Cardinality(pending) = 1
    /\ \A cb \in pending : cb.analysis = run.analysis /\ cb.options = run.options

\* C24: between steps animationId is non-null exactly when one frame
\* callback is pending, and then it is the handle of that callback.
C24_HandleMatchesPending ==
    /\ animationId # NullId <=> Cardinality(pending) = 1
    /\ animationId # NullId => \A cb \in pending : cb.id = animationId

\* C25: the field layer of a frame (ResonanceField.update, then render)
\* completes on every grid resize can build, a grid without rows or without
\* columns included: a frame of an animation with showResonanceField = true
\* has drawn the field layer.
C25_FieldCompletesOnEveryGrid ==
    (lastOp = "tick" /\ run.options.showResonanceField) =>
        /\ Drew("field")
        /\ ~FieldThrows(resonanceField)

\* The all-zero default analyzeVoiceData returns on an empty sample list.
NeutralDefault(a) ==
    a.averageVolume = 0 /\ a.peakVolume = 0 /\ a.emotionalTone = "neutral"

\* C26: a recording during which at least one animation frame elapsed
\* between its start and its stop resolves with a VoiceAnalysis computed
\* from a non-empty list of volume samples, not with the all-zero
\* 'neutral' default.
C26_SampledWhileRecording ==
    (voiceOp = "onstop" /\ recordings[stopResult.rec].frames >= 1) =>
        ~NeutralDefault(stopResult.analysis)

\* C27: a recording started when every earlier recording had been stopped
\* is stopped by a timer only if the timer is the one its own
\* startRecording set, and then it lasted its maxDuration.
C27_OwnTimerOnly ==
    \A r \in 1..Len(recordings) :
        (recordings[r].stoppedBy = "timer" /\ recordings[r].afterStop) =>
            /\ recordings[r].timerOf = r
            /\ recordings[r].stoppedAt - recordings[r].startedAt = recordings[r].maxDuration

\* C28: while getRecordingState() is true a media recorder and a stream
\* exist, and no stopRecording made while it is true is rejected.
C28_RecordingHasRecorder ==
    /\ isRecording => (mediaRecorder # NoRecorder /\ stream # NoRecorder)
    /\ stopResult.status = "rejected" => ~stopResult.wasRecording

\* C29: every addEntry leaves at most 100 entries, the entry it returns at
\* index 0 and behind it the entries the session held, in their order and
\* cut at the tail only; totalAnalyses grows by exactly 1.
C29_AddEntryFrontAndCapped ==
    [][(sessionOp' = "addEntry" /\ sessionCalls' = sessionCalls + 1) =>
           LET before == currentSession.entries
               after == currentSession'.entries
           IN  /\ Len(after) <= MAX_ENTRIES
               /\ Len(after) >= 1
               /\ after[1] = returned'
               /\ \A i \in 2..Len(after) : i - 1 <= Len(before) /\ after[i] = before[i - 1]
               /\ currentSession'.totalAnalyses = currentSession.totalAnalyses + 1]_vars

\* The operations that write the session only while history is saved.
HistoryOps ==
    {"addEntry", "updateEntry", "deleteEntry", "addToFavorites", "removeFromFavorites",
     "updatePreferences"}

\* C30: a call of one of the six operations made while saveHistory is
\* false (for updatePreferences: which sets it false) stores nothing in
\* localStorage.
C30_NoWriteWhileHistoryOff ==
    (sessionOp \in HistoryOps /\ ~currentSession.saveHistory) =>
        \A k \in 1..Len(setItems) : setItems[k] # "stored"
====
